---------------------------- MODULE MemoryStore ----------------------------
(***************************************************************************)
(* The memory root as a file store shared by concurrent memwiz processes.  *)
(*                                                                         *)
(* inbox, canon and archive say which file, if any, a record id has in the *)
(* directory of that name.  A record's scope says under which root the     *)
(* file lies: a workspace has the three directories, the global root has   *)
(* canon and archive only.  Ids are drawn afresh for every record, so an   *)
(* id names at most one file per directory kind.                           *)
(*                                                                         *)
(* Each process runs one command at a time: capture, score, accept,        *)
(* remember, promote or prune.  A step of a command is one operation on    *)
(* shared files together with the local work up to the next one, so        *)
(* commands interleave between any two file operations.  Reading a canon   *)
(* directory is one step: its files are replaced atomically, and a file    *)
(* that vanishes between the listing and its read fails the command.       *)
(***************************************************************************)
EXTENDS Dedupe

CONSTANTS
  Procs,       \* processes running commands
  Ids,         \* record ids
  Workspaces,  \* workspace slugs
  Words,       \* the tokens summaries are made of
  Notes,       \* what memories may say
  Policies,    \* autonomy policies a remember may resolve to
  Stops,       \* whether commands fail or are killed
  MaxClock,    \* bound on the clock
  NoFile       \* the absence of a file or record

Policy == [profile : {"manual", "balanced", "aggressive"},
           kinds : SUBSET Kinds, nonAgent : BOOLEAN]

Scores  == [evidence : 0 .. 4, durability : 0 .. 4, retain : Nat]
NoScore == [evidence |-> 0, durability |-> 0, retain |-> 0]

Record == [id : Ids, scope : Workspaces \cup {Global}, note : Notes,
           status : {"captured", "accepted", "archived"},
           mode : {"none", "manual", "policy"},
           score : Scores, source : Ids \cup {NoId}, at : Nat]

CapturedRecord == {r \in Record : r.status = "captured"}
AcceptedRecord == {r \in Record : r.status = "accepted"}
ArchivedRecord == {r \in Record : r.status = "archived"}

ASSUME IdsAssumption       == Ids \subseteq Nat \ {NoId}
ASSUME NotesAssumption     == Notes \subseteq Note(Words)
ASSUME PoliciesAssumption  == Policies \subseteq Policy
ASSUME WorkspaceAssumption == Global \notin Workspaces
ASSUME StopsAssumption     == Stops \in BOOLEAN
ASSUME ClockAssumption     == MaxClock \in Nat \ {0}
ASSUME NoFileAssumption    == NoFile \notin Record
ASSUME NoMemoryAssumption  ==
  NoFile \notin [status : {"captured", "accepted", "archived"},
                 scope : Workspaces \cup {Global}, note : Notes, source : Ids \cup {NoId}]

VARIABLES
  inbox, canon, archive,  \* the file of each id in each directory, or NoFile
  audit,                  \* events of the audit log
  now,                    \* the clock
  pc,                     \* the next step of each process
  rec,                    \* the record each process works on
  outcome,                \* what a remember reports
  plan,                   \* the records a prune has still to archive
  (* History: *)
  overlapped,             \* the prunes that were at work together with another one
  lapsed                  \* the memories whose remember was stopped between accepting
                          \* them and its event, or lost the candidate to an accept

files   == <<inbox, canon, archive>>
history == <<overlapped, lapsed>>
vars    == <<inbox, canon, archive, audit, now, pc, rec, outcome, plan, overlapped, lapsed>>

Outcomes == {"rejected_secret_like", "skipped_duplicate", "auto_accepted",
             "captured_only", "review_required"}

Steps == {"idle", "scoreJudge", "scoreWrite", "acceptJudge", "acceptWrite",
          "acceptUnlink", "rememberInbox", "rememberScore", "rememberCanon",
          "rememberUnlink", "rememberAudit", "promoteJudge", "promoteWrite",
          "pruneArchive", "pruneUnlink"}

File(dir) == {dir[i] : i \in Ids} \ {NoFile}

(* What a process holds at a step. *)
CapturedSteps == {"scoreJudge", "scoreWrite", "acceptJudge", "rememberInbox", "rememberScore"}
AcceptedSteps == {"acceptWrite", "acceptUnlink", "rememberCanon", "rememberUnlink",
                  "promoteJudge", "promoteWrite"}
RememberSteps == {"rememberInbox", "rememberScore", "rememberCanon", "rememberUnlink",
                  "rememberAudit"}

HoldsOK(p) ==
  /\ pc[p] \in CapturedSteps => rec[p] \in CapturedRecord
  /\ pc[p] \in AcceptedSteps => rec[p] \in AcceptedRecord
  /\ pc[p] \in {"pruneUnlink", "rememberAudit"} => rec[p] \in Record
  /\ pc[p] \in RememberSteps => outcome[p] \in Outcomes

(* The types of the variables, a directory holding records of its status    *)
(* only, and of what each command has in hand at each of its steps.         *)
TypeOK ==
  /\ inbox \in [Ids -> CapturedRecord \cup {NoFile}]
  /\ canon \in [Ids -> AcceptedRecord \cup {NoFile}]
  /\ archive \in [Ids -> ArchivedRecord \cup {NoFile}]
  /\ audit \subseteq [id : Ids, outcome : Outcomes]
  /\ overlapped \subseteq Procs
  /\ lapsed \subseteq Ids
  /\ now \in 1 .. MaxClock
  /\ pc \in [Procs -> Steps]
  /\ rec \in [Procs -> Record \cup {NoFile}]
  /\ outcome \in [Procs -> Outcomes \cup {"none"}]
  /\ plan \in [Procs -> SUBSET AcceptedRecord]
  /\ \A p \in Procs : HoldsOK(p)

Init ==
  /\ inbox = [i \in Ids |-> NoFile]
  /\ canon = [i \in Ids |-> NoFile]
  /\ archive = [i \in Ids |-> NoFile]
  /\ audit = {}
  /\ now = 1
  /\ pc = [p \in Procs |-> "idle"]
  /\ rec = [p \in Procs |-> NoFile]
  /\ outcome = [p \in Procs |-> "none"]
  /\ plan = [p \in Procs |-> {}]
  /\ overlapped = {}
  /\ lapsed = {}

-----------------------------------------------------------------------------
(* Helpers                                                                  *)

(* What is in the canon directory of scope s.                               *)
Canon(s) == {r \in File(canon) : r.scope = s}

(* Mutant: a new id is only compared with what left the inbox. *)
FreshUnlessQueued(i) ==
  /\ canon[i] = NoFile /\ archive[i] = NoFile
  /\ \A p \in Procs : rec[p] # NoFile => rec[p].id # i

(* An id no file, event or running command uses.                            *)
Fresh(i) ==
  /\ inbox[i] = NoFile /\ canon[i] = NoFile /\ archive[i] = NoFile
  /\ \A e \in audit : e.id # i
  /\ \A p \in Procs : rec[p] # NoFile => rec[p].id # i

NewRecord(i, w, n) ==
  [id |-> i, scope |-> w, note |-> n, status |-> "captured", mode |-> "none",
   score |-> NoScore, source |-> NoId, at |-> now]

Scored(r, canonRecords, t) ==
  LET strong == HasStrong(r, canonRecords)
      near   == HasNear(r, canonRecords)
  IN [r EXCEPT !.at = t,
        !.score = [evidence |-> Evidence(r.note), durability |-> Durability(r.note),
                   retain |-> Total(r.note, "workspace", "workspace", strong, near)]]

(* A remember that has accepted i, or is about to, has not got to its event.*)
Accepting(q, i) ==
  /\ pc[q] \in {"rememberCanon", "rememberUnlink", "rememberAudit"}
  /\ rec[q].mode = "policy" /\ rec[q].id = i

Accepted(r, how) == [r EXCEPT !.status = "accepted", !.mode = how]

Goto(p, to)   == pc' = [pc EXCEPT ![p] = to]
Hold(p, r)    == rec' = [rec EXCEPT ![p] = r]

(* A command ends: the process is idle and keeps nothing.                   *)
Done(p) ==
  /\ Goto(p, "idle")
  /\ Hold(p, NoFile)
  /\ outcome' = [outcome EXCEPT ![p] = "none"]
  /\ plan' = [plan EXCEPT ![p] = {}]
  /\ overlapped' = overlapped \ {p}

(* The prunes at work.                                                      *)
Pruning == {p \in Procs : pc[p] \in {"pruneArchive", "pruneUnlink"}}

-----------------------------------------------------------------------------
(* capture: one atomic write of a fresh record to the inbox                 *)

Capture(p, i, w, n) ==
  /\ pc[p] = "idle"
  /\ ~ SecretLike(n)
  /\ Fresh(i)
  /\ inbox' = [inbox EXCEPT ![i] = NewRecord(i, w, n)]
  /\ UNCHANGED <<canon, archive, audit, now, pc, rec, outcome, plan, history>>

(* score: read the candidate, read the workspace canon, rewrite the         *)
(* candidate with its score                                                 *)

ScoreRead(p, i) ==
  /\ pc[p] = "idle"
  /\ inbox[i] # NoFile
  /\ Hold(p, inbox[i])
  /\ Goto(p, "scoreJudge")
  /\ UNCHANGED <<files, audit, now, outcome, plan, history>>

ScoreJudge(p) ==
  /\ pc[p] = "scoreJudge"
  /\ Hold(p, Scored(rec[p], Canon(rec[p].scope), now))
  /\ Goto(p, "scoreWrite")
  /\ UNCHANGED <<files, audit, now, outcome, plan, history>>

ScoreWrite(p) ==
  /\ pc[p] = "scoreWrite"
  /\ inbox' = [inbox EXCEPT ![rec[p].id] = rec[p]]
  /\ Done(p)
  /\ UNCHANGED <<canon, archive, audit, now, lapsed>>

(* accept: read the candidate and the clock, judge it against the workspace *)
(* canon, write it to canon, unlink it from the inbox                       *)

AcceptRead(p, i) ==
  /\ pc[p] = "idle"
  /\ inbox[i] # NoFile
  /\ ~ SecretLike(inbox[i].note)
  /\ Hold(p, [inbox[i] EXCEPT !.at = now])
  /\ Goto(p, "acceptJudge")
  /\ UNCHANGED <<files, audit, now, outcome, plan, history>>

AcceptJudge(p) ==
  LET r == rec[p]
      known == Canon(r.scope)
  IN  /\ pc[p] = "acceptJudge"
      /\ \/ /\ Retainable(r.note, HasStrong(r, known), HasNear(r, known))
            /\ Hold(p, Accepted(Scored(r, known, r.at), "manual"))
            /\ Goto(p, "acceptWrite")
            /\ UNCHANGED <<outcome, plan, overlapped>>
         \/ /\ ~ Retainable(r.note, HasStrong(r, known), HasNear(r, known))
            /\ Done(p)
      /\ UNCHANGED <<files, audit, now, lapsed>>

(* Mutant: the candidate is unlinked before the canon file is written. *)
AcceptWriteLate(p) ==
  /\ pc[p] = "acceptWrite"
  /\ inbox' = [inbox EXCEPT ![rec[p].id] = NoFile]
  /\ Goto(p, "acceptUnlink")
  /\ UNCHANGED <<canon, archive, audit, now, rec, outcome, plan, history>>

AcceptWrite(p) ==
  /\ pc[p] = "acceptWrite"
  /\ canon' = [canon EXCEPT ![rec[p].id] = rec[p]]
  /\ Goto(p, "acceptUnlink")
  /\ UNCHANGED <<inbox, archive, audit, now, rec, outcome, plan, history>>

(* A candidate that is gone by now makes unlink raise: the command ends     *)
(* either way, and the file is absent either way.                           *)
AcceptUnlink(p) ==
  /\ pc[p] = "acceptUnlink"
  /\ inbox' = [inbox EXCEPT ![rec[p].id] = NoFile]
  /\ lapsed' = lapsed \cup {i \in {rec[p].id} : \E q \in Procs : Accepting(q, i)}
  /\ Done(p)
  /\ UNCHANGED <<canon, archive, audit, now>>

-----------------------------------------------------------------------------
(* remember: judge a fresh record against the workspace canon, write it to  *)
(* the inbox twice (as captured, then scored), accept it if the policy      *)
(* allows, and append an audit event                                        *)

HasNonAgentEvidence(n) == \E k \in DOMAIN n.evidence : n.evidence[k] # "agent"

(* Mutant: the kinds of the policy are not consulted. *)
AutoAcceptsAnyKind(pol, n, strong, near) ==
  /\ pol.profile \in {"balanced", "aggressive"}
  /\ ~ near
  /\ pol.nonAgent => HasNonAgentEvidence(n)
  /\ Retainable(n, strong, near)

(* _should_auto_accept                                                      *)
AutoAccepts(pol, n, strong, near) ==
  /\ pol.profile \in {"balanced", "aggressive"}
  /\ ~ near
  /\ n.kind \in pol.kinds
  /\ pol.nonAgent => HasNonAgentEvidence(n)
  /\ Retainable(n, strong, near)

Verdict(pol, n, strong, near) ==
  IF SecretLike(n) THEN "rejected_secret_like"
  ELSE IF strong THEN "skipped_duplicate"
  ELSE IF AutoAccepts(pol, n, strong, near) THEN "auto_accepted"
  ELSE IF pol.profile = "manual" THEN "captured_only"
  ELSE "review_required"

(* Mutant: a skipped duplicate is written as a candidate all the same. *)
StoredUnlessSecret(v) == v # "rejected_secret_like"

(* The verdicts after which the candidate is written. *)
Stored(v) == v \notin {"rejected_secret_like", "skipped_duplicate"}

RememberStart(p, i, w, n, pol) ==
  LET new   == NewRecord(i, w, n)
      known == Canon(w)
      v     == Verdict(pol, n, HasStrong(new, known), HasNear(new, known))
  IN  /\ pc[p] = "idle"
      /\ Fresh(i)
      /\ Hold(p, Scored(new, known, now))
      /\ outcome' = [outcome EXCEPT ![p] = v]
      /\ Goto(p, IF Stored(v) THEN "rememberInbox" ELSE "rememberAudit")
      /\ UNCHANGED <<files, audit, now, plan, history>>

RememberInbox(p) ==
  /\ pc[p] = "rememberInbox"
  /\ inbox' = [inbox EXCEPT ![rec[p].id] = [rec[p] EXCEPT !.score = NoScore]]
  /\ Goto(p, "rememberScore")
  /\ UNCHANGED <<canon, archive, audit, now, rec, outcome, plan, history>>

RememberScore(p) ==
  /\ pc[p] = "rememberScore"
  /\ inbox' = [inbox EXCEPT ![rec[p].id] = rec[p]]
  /\ \/ /\ outcome[p] = "auto_accepted"
        /\ Hold(p, Accepted(rec[p], "policy"))
        /\ Goto(p, "rememberCanon")
     \/ /\ outcome[p] # "auto_accepted"
        /\ Goto(p, "rememberAudit")
        /\ UNCHANGED rec
  /\ UNCHANGED <<canon, archive, audit, now, outcome, plan, history>>

RememberCanon(p) ==
  /\ pc[p] = "rememberCanon"
  /\ canon' = [canon EXCEPT ![rec[p].id] = rec[p]]
  /\ Goto(p, "rememberUnlink")
  /\ UNCHANGED <<inbox, archive, audit, now, rec, outcome, plan, history>>

(* Mutant: the accepting branch returns without an audit event. *)
RememberUnlinkSilent(p) ==
  /\ pc[p] = "rememberUnlink"
  /\ inbox' = [inbox EXCEPT ![rec[p].id] = NoFile]
  /\ Done(p)
  /\ UNCHANGED <<canon, archive, audit, now, lapsed>>

(* A candidate that is gone makes unlink raise, and the event is not        *)
(* appended.                                                                *)
RememberUnlink(p) ==
  /\ pc[p] = "rememberUnlink"
  /\ \/ /\ inbox[rec[p].id] # NoFile
        /\ inbox' = [inbox EXCEPT ![rec[p].id] = NoFile]
        /\ Goto(p, "rememberAudit")
        /\ UNCHANGED <<rec, outcome, plan, overlapped>>
     \/ /\ inbox[rec[p].id] = NoFile
        /\ Done(p)
        /\ UNCHANGED inbox
  /\ UNCHANGED <<canon, archive, audit, now, lapsed>>

RememberAudit(p) ==
  /\ pc[p] = "rememberAudit"
  /\ audit' = audit \cup {[id |-> rec[p].id, outcome |-> outcome[p]]}
  /\ Done(p)
  /\ UNCHANGED <<files, now, lapsed>>

-----------------------------------------------------------------------------
(* promote: read an accepted workspace record, judge it against the global  *)
(* canon, write it there under an id of its own                             *)

PromoteRead(p, i) ==
  /\ pc[p] = "idle"
  /\ canon[i] # NoFile /\ canon[i].scope # Global
  /\ ~ SecretLike(canon[i].note)
  /\ Hold(p, [canon[i] EXCEPT !.at = now])
  /\ Goto(p, "promoteJudge")
  /\ UNCHANGED <<files, audit, now, outcome, plan, history>>

(* Mutant: the provenance of the workspace record, which has none, is kept. *)
ProvisionalUnsourced(r) == [r EXCEPT !.scope = Global]

(* build_provisional_global_record: the record as it would be promoted, but *)
(* still under its own id                                                   *)
Provisional(r) == [r EXCEPT !.scope = Global, !.source = r.id]

(* Mutant: the provenance names the promoted record itself. *)
PromotedSelfSourced(r, g, strong, near) ==
  [Provisional(r) EXCEPT !.id = g, !.source = g, !.mode = "manual",
     !.score = [evidence |-> Evidence(r.note), durability |-> Durability(r.note),
                retain |-> Total(r.note, "global", "global", strong, near)]]

(* _finalize_promoted_record: it retains the score of a global record       *)
Promoted(r, g, strong, near) ==
  [Provisional(r) EXCEPT !.id = g, !.mode = "manual",
     !.score = [evidence |-> Evidence(r.note), durability |-> Durability(r.note),
                retain |-> Total(r.note, "global", "global", strong, near)]]

PromoteJudge(p, g) ==
  LET r      == rec[p]
      strong == HasStrong(Provisional(r), Canon(Global))
      near   == HasNear(Provisional(r), Canon(Global))
  IN  /\ pc[p] = "promoteJudge"
      /\ \/ /\ Promotable(r.note, strong, near)
            /\ Fresh(g)
            /\ Hold(p, Promoted(r, g, strong, near))
            /\ Goto(p, "promoteWrite")
            /\ UNCHANGED <<outcome, plan, overlapped>>
         \/ /\ ~ Promotable(r.note, strong, near)
            /\ Done(p)
      /\ UNCHANGED <<files, audit, now, lapsed>>

PromoteWrite(p) ==
  /\ pc[p] = "promoteWrite"
  /\ canon' = [canon EXCEPT ![rec[p].id] = rec[p]]
  /\ Done(p)
  /\ UNCHANGED <<inbox, archive, audit, now, lapsed>>

-----------------------------------------------------------------------------
(* prune: under the root lock, read the canon directories of the selected   *)
(* scopes and plan; then, workspace before global and by id, write each     *)
(* planned record to the archive and unlink it from canon.                  *)

(* Mutant: the winner of a group of duplicates is archived with the losers. *)
DuplicatesPlanBoth(scopes) ==
  LET records == UNION {Canon(s) : s \in scopes}
  IN  {r \in records : HasStrong(r, records)}

(* The planner also archives superseded records, but no command writes a    *)
(* "supersedes", so here only duplicates are planned (module PrunePlan has  *)
(* both).                                                                   *)
DuplicatesPlan(scopes) ==
  LET records == UNION {Canon(s) : s \in scopes}
  IN  records \ Survivors(records)

(* _action_sort_key: workspace actions first, then by id *)
Precedes(a, b) ==
  \/ a.scope # Global /\ b.scope = Global
  \/ (a.scope = Global <=> b.scope = Global) /\ a.id <= b.id

(* A dry run, like a plan that is empty, ends here.  acquire_root_lock is   *)
(* to refuse a prune while another is at work, but a command that has taken *)
(* the lock file for a dead one's, as it takes a file without a pid, may    *)
(* unlink that of a live prune at any later time (module RootLock): nothing *)
(* is taken for granted of the lock, and overlapped remembers who met.      *)
PruneStart(p, scopes) ==
  /\ pc[p] = "idle"
  /\ DuplicatesPlan(scopes) # {}
  /\ plan' = [plan EXCEPT ![p] = DuplicatesPlan(scopes)]
  /\ overlapped' = IF Pruning = {} THEN overlapped ELSE overlapped \cup Pruning \cup {p}
  /\ Goto(p, "pruneArchive")
  /\ UNCHANGED <<files, audit, now, rec, outcome, lapsed>>

(* _archive_record reads the file anew; one that is gone fails the command. *)
(* The command's clock is read once, at its first archival.                 *)
PruneArchive(p) ==
  \E a \in plan[p] :
    LET i == a.id
        t == IF rec[p] = NoFile THEN now ELSE rec[p].at
    IN  /\ pc[p] = "pruneArchive"
        /\ \A b \in plan[p] : Precedes(a, b)
        /\ \/ /\ canon[i] # NoFile
              /\ Hold(p, [canon[i] EXCEPT !.status = "archived", !.at = t])
              /\ archive' = [archive EXCEPT ![i] = rec'[p]]
              /\ Goto(p, "pruneUnlink")
              /\ UNCHANGED <<outcome, plan, overlapped>>
           \/ /\ canon[i] = NoFile
              /\ Done(p)
              /\ UNCHANGED archive
        /\ UNCHANGED <<inbox, canon, audit, now, lapsed>>

PruneUnlink(p) ==
  LET rest == {a \in plan[p] : a.id # rec[p].id}
  IN  /\ pc[p] = "pruneUnlink"
      /\ canon' = [canon EXCEPT ![rec[p].id] = NoFile]
      /\ \/ /\ rest # {} /\ canon[rec[p].id] # NoFile
            /\ plan' = [plan EXCEPT ![p] = rest]
            /\ Goto(p, "pruneArchive")
            /\ UNCHANGED <<rec, outcome, overlapped>>
         \/ /\ rest = {} \/ canon[rec[p].id] = NoFile
            /\ Done(p)
      /\ UNCHANGED <<inbox, archive, audit, now, lapsed>>

-----------------------------------------------------------------------------
(* Failures.  An exception or a kill ends a command between two of its file *)
(* operations: an atomic write that fails has written all or nothing.       *)

(* A remember that is stopped once it is accepting leaves no event.         *)
Lapse(p) == lapsed' = lapsed \cup {i \in Ids : Accepting(p, i)}

Stop(p) ==
  /\ Stops
  /\ pc[p] # "idle"
  /\ Done(p) /\ Lapse(p)
  /\ UNCHANGED <<files, audit, now>>

Tick ==
  /\ now < MaxClock
  /\ now' = now + 1
  /\ UNCHANGED <<files, audit, pc, rec, outcome, plan, history>>

PruneScopes == {{w} : w \in Workspaces} \cup {{Global}}
                 \cup {{w, Global} : w \in Workspaces}

(* A user or an agent starts a command. *)
Begin(p) ==
  \/ \E i \in Ids :
       \/ \E w \in Workspaces, n \in Notes : Capture(p, i, w, n)
       \/ \E w \in Workspaces, n \in Notes, pol \in Policies :
            RememberStart(p, i, w, n, pol)
       \/ ScoreRead(p, i)
       \/ AcceptRead(p, i)
       \/ PromoteRead(p, i)
  \/ \E scopes \in PruneScopes : PruneStart(p, scopes)

(* A command that was started goes on. *)
Continue(p) ==
  \/ ScoreJudge(p) \/ ScoreWrite(p)
  \/ AcceptJudge(p) \/ AcceptWrite(p) \/ AcceptUnlink(p)
  \/ RememberInbox(p) \/ RememberScore(p) \/ RememberCanon(p)
  \/ RememberUnlink(p) \/ RememberAudit(p)
  \/ \E g \in Ids : PromoteJudge(p, g)
  \/ PromoteWrite(p)
  \/ PruneArchive(p) \/ PruneUnlink(p)

Next ==
  \/ \E p \in Procs : Begin(p) \/ Continue(p) \/ Stop(p)
  \/ Tick

Spec == Init /\ [][Next]_vars

-----------------------------------------------------------------------------
(* Properties                                                               *)

Present(i) == inbox[i] # NoFile \/ canon[i] # NoFile \/ archive[i] # NoFile

(* A memory that some directory holds is held by some directory ever after, *)
(* through every interleaving, exception and kill: accept and prune write   *)
(* the new file before they unlink the old one.                             *)
NeverLost == [][\A i \in Ids : Present(i) => Present(i)']_files

(* A file is unlinked only when the file that replaces it is there: the     *)
(* candidate of an accept or a remember in canon, or archived from there by *)
(* a prune since, and the canon record of a prune in the archive.           *)
CopyBeforeUnlink ==
  \A p \in Procs :
    LET i == rec[p].id
    IN  /\ pc[p] \in {"acceptUnlink", "rememberUnlink"} =>
             canon[i] # NoFile \/ archive[i] # NoFile
        /\ pc[p] = "pruneUnlink" => archive[i] # NoFile

(* Every record with the same id says the same under the same scope: moves  *)
(* and rewrites, and writes from a stale copy, change only the bookkeeping. *)
CopiesAgree ==
  \A i \in Ids : \A r, s \in {inbox[i], canon[i], archive[i]} \ {NoFile} :
    r.note = s.note /\ r.scope = s.scope

(* The provenance of a global record resolves: its source was accepted and  *)
(* is still in its workspace's canon or archive, saying the same, although  *)
(* a prune may archive it while it is being promoted.                       *)
ProvenanceResolves ==
  \A g \in File(canon) \cup File(archive) :
    g.scope = Global =>
      \E r \in {canon[g.source], archive[g.source]} \ {NoFile} :
        r.note = g.note /\ r.scope # Global

(* The audit log tells the truth about the store: an auto-accepted memory   *)
(* is in canon or archived, one that awaits review is somewhere, and one    *)
(* that was rejected or skipped was never stored.                           *)
AuditTruthful ==
  \A e \in audit :
    /\ e.outcome = "auto_accepted" => canon[e.id] # NoFile \/ archive[e.id] # NoFile
    /\ e.outcome \in {"captured_only", "review_required"} => Present(e.id)
    /\ e.outcome \in {"rejected_secret_like", "skipped_duplicate"} => ~ Present(e.id)

(* A record is in canon only if its note earns the place by itself, with    *)
(* the score that was recorded for it, and with what promotion or an        *)
(* autonomy policy asks on top.                                             *)
CanonEarned ==
  \A r \in File(canon) :
    /\ ~ Disqualified(r.note, FALSE)
    /\ r.score.retain >= RetainThreshold
    /\ r.scope = Global => Promotable(r.note, FALSE, FALSE)
    /\ r.mode = "policy" =>
         \E pol \in Policies :
           /\ pol.profile # "manual" /\ r.note.kind \in pol.kinds
           /\ pol.nonAgent => "strong" \in ValuesIn(r.note.evidence)

(* No two canon records of a scope are strong duplicates.  It holds when    *)
(* commands run one at a time, even if any of them is killed.               *)
NoDuplicates ==
  \A r, s \in File(canon) : r.id # s.id => ~ StrongDuplicate(r, s)

Event(i) == [id |-> i, outcome |-> "auto_accepted"]

(* The audit log accounts for every memory a policy accepted, in canon or   *)
(* archived since, however commands overlap: its event is there, or its     *)
(* remember is still to append it, unless that was stopped before it could  *)
(* or an accept took the candidate from it.                                 *)
AuditComplete ==
  \A r \in File(canon) \cup File(archive) :
    r.mode = "policy" => \/ Event(r.id) \in audit
                         \/ \E p \in Procs : Accepting(p, r.id)
                         \/ r.id \in lapsed

(* What the README says of remember, that it is "always writing an audit    *)
(* event": when no command is running, every memory a policy accepted has   *)
(* its event.  It holds when commands run one at a time and none is stopped.*)
AlwaysAudited ==
  (\A p \in Procs : pc[p] = "idle") =>
    \A r \in File(canon) : r.mode = "policy" => Event(r.id) \in audit

(* The life of each memory as its files tell it: a canon file overrides an  *)
(* archived one, and both override the inbox.                               *)
MemoryOf(i) ==
  LET view(r, s) == [status |-> s, scope |-> r.scope, note |-> r.note, source |-> r.source]
  IN  IF canon[i] # NoFile THEN view(canon[i], "accepted")
      ELSE IF archive[i] # NoFile THEN view(archive[i], "archived")
      ELSE IF inbox[i] # NoFile THEN view(inbox[i], "captured")
      ELSE NoFile

Life == INSTANCE Lifecycle
  WITH memory    <- [i \in Ids |-> MemoryOf(i)],
       contested <- {a.id : a \in UNION {plan[p] : p \in overlapped}}

(* The store implements the promise of Lifecycle under concurrency and      *)
(* failures, also when two prunes have got past the lock together, and the  *)
(* strict one when commands run one at a time.                              *)
Lives         == Life!Spec
LivesStrictly == Life!StrictSpec
=============================================================================
