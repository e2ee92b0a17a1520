----------------------------- MODULE Durability -----------------------------
(***************************************************************************)
(* The files of memories and the audit log, below the level of             *)
(* MemoryStore: what is in the page cache, where every process sees it,    *)
(* and what has reached the disk, which is what a power failure leaves.    *)
(* write_text_atomic (fsops.py) and append_audit_event (auditlog.py) are   *)
(* taken apart into their system calls; the commands are the order in      *)
(* which they write, unlink and append.                                    *)
(*                                                                         *)
(* The kernel may write anything back at any time.  A name that fsync has  *)
(* not settled may be on the disk or not; a log may be there up to any     *)
(* byte.  What reaches the disk is not damaged there.                      *)
(*                                                                         *)
(* The log is the pieces that appends have written, one after the other.   *)
(* A piece that was cut short has no newline, so the next one, whoever     *)
(* writes it, continues its line.                                          *)
(***************************************************************************)
EXTENDS Naturals, Sequences

CONSTANTS
  Procs,
  Ids,
  NoFile,
  MaxCommands,  \* commands that start
  MaxLosses     \* power failures

ASSUME BoundsAssumption == MaxCommands \in Nat /\ MaxLosses \in Nat

Places == {"inbox", "canon", "archive"}
Paths == Places \X Ids
Wholes == {"captured", "scored", "accepted", "archived"}
Contents == Wholes \cup {"empty", "half"}

ASSUME NoFileAssumption == NoFile \notin [data : Contents, safe : Contents]

VARIABLES
  seen,      \* the file at each path, in the cache
  kept,      \* the file at each path, on the disk
  rooted,    \* whether the directories themselves are on the disk
  log,       \* the audit log in the cache: the pieces written, each whole or cut short
  logKept,   \* the part of it on the disk
  logNamed,  \* whether the log's name is on the disk
  todo,      \* what is left of each process's command
  pc,        \* where it is within the first step of that
  tmp,       \* the temporary file of each process
  used,      \* ids drawn
  stored,    \* ids of which some write has returned
  audited,   \* events of which the append has returned
  glued,     \* events that were written where the last line had no end
  uprooted,  \* whether a power failure has taken a directory with its files
  started, losses

files == <<seen, kept, rooted>>
logs == <<log, logKept, logNamed>>
history == <<used, stored, audited, glued, uprooted, started, losses>>
vars == <<files, logs, todo, pc, tmp, history>>

File(data, safe) == [data |-> data, safe |-> safe]
Event(id, outcome) == [id |-> id, outcome |-> outcome]

Write(place, id, data) == [op |-> "write", path |-> <<place, id>>, data |-> data]
Unlink(place, id) == [op |-> "unlink", path |-> <<place, id>>]
Audit(id, outcome) == [op |-> "append", event |-> Event(id, outcome)]

-----------------------------------------------------------------------------
(* The commands: what each has to do once it has read what it needs.        *)

Start(p, steps) ==
  /\ todo[p] = <<>> /\ started < MaxCommands
  /\ todo' = [todo EXCEPT ![p] = steps]
  /\ started' = started + 1
  /\ UNCHANGED <<files, logs, pc, tmp, stored, audited, glued, uprooted, losses>>

(* Mutant: the event first.                                                 *)
RememberAuditsFirst(p) ==
  \E id \in Ids \ used :
    /\ used' = used \cup {id}
    /\ Start(p, <<Write("inbox", id, "captured"), Audit(id, "auto_accepted"),
                  Write("canon", id, "accepted"), Unlink("inbox", id)>>)

Remember(p) ==
  \E id \in Ids \ used :
    /\ used' = used \cup {id}
    /\ \/ Start(p, <<Audit(id, "rejected_secret_like")>>)
       \/ Start(p, <<Write("inbox", id, "captured"), Write("inbox", id, "scored"),
                     Audit(id, "review_required")>>)
       \/ Start(p, <<Write("inbox", id, "captured"), Write("inbox", id, "scored"),
                     Write("canon", id, "accepted"), Unlink("inbox", id),
                     Audit(id, "auto_accepted")>>)

Score(p) ==
  \E id \in Ids :
    /\ seen[<<"inbox", id>>] # NoFile
    /\ Start(p, <<Write("inbox", id, "scored")>>) /\ UNCHANGED used

Accept(p) ==
  \E id \in Ids :
    /\ seen[<<"inbox", id>>] # NoFile
    /\ Start(p, <<Write("canon", id, "accepted"), Unlink("inbox", id)>>)
    /\ UNCHANGED used

Archive(p) ==
  \E id \in Ids :
    /\ seen[<<"canon", id>>] # NoFile
    /\ Start(p, <<Write("archive", id, "archived"), Unlink("canon", id)>>)
    /\ UNCHANGED used

-----------------------------------------------------------------------------
(* write_text_atomic                                                        *)

At(p, op, where) == todo[p] # <<>> /\ Head(todo[p]).op = op /\ pc[p] = where
Go(p, where) == pc' = [pc EXCEPT ![p] = where]
Done(p) == Go(p, "next") /\ todo' = [todo EXCEPT ![p] = Tail(@)]

MakeTemp(p) ==
  /\ At(p, "write", "next")
  /\ tmp' = [tmp EXCEPT ![p] = File("empty", "empty")]
  /\ Go(p, "temp")
  /\ UNCHANGED <<files, logs, todo, history>>

(* A flush may take more than one write.                                    *)
WriteTemp(p) ==
  /\ At(p, "write", "temp")
  /\ \E data \in {"half", Head(todo[p]).data} :
       /\ tmp' = [tmp EXCEPT ![p].data = data]
       /\ Go(p, IF data = "half" THEN "temp" ELSE "written")
  /\ UNCHANGED <<files, logs, todo, history>>

(* Mutant: os.fsync is left out.                                            *)
SyncTempSkipped(p) ==
  /\ At(p, "write", "written")
  /\ Go(p, "synced")
  /\ UNCHANGED <<files, logs, todo, tmp, history>>

SyncTemp(p) ==
  /\ At(p, "write", "written")
  /\ tmp' = [tmp EXCEPT ![p].safe = tmp[p].data]
  /\ Go(p, "synced")
  /\ UNCHANGED <<files, logs, todo, history>>

Replace(p) ==
  /\ At(p, "write", "synced")
  /\ seen' = [seen EXCEPT ![Head(todo[p]).path] = tmp[p]]
  /\ tmp' = [tmp EXCEPT ![p] = NoFile]
  /\ Go(p, "replaced")
  /\ UNCHANGED <<kept, rooted, logs, todo, history>>

InDirectory(place) == {q \in Paths : q[1] = place}
Settled(S) == [q \in Paths |-> IF q \in S THEN seen[q] ELSE kept[q]]

(* Mutant: fsync_directory is left out.                                     *)
SyncDirectorySkipped(p) ==
  /\ At(p, "write", "replaced")
  /\ stored' = stored \cup {Head(todo[p]).path[2]}
  /\ Done(p)
  /\ UNCHANGED <<files, logs, tmp, used, audited, glued, uprooted, started, losses>>

SyncDirectory(p) ==
  /\ At(p, "write", "replaced")
  /\ kept' = Settled(InDirectory(Head(todo[p]).path[1]))
  /\ stored' = stored \cup {Head(todo[p]).path[2]}
  /\ Done(p)
  /\ UNCHANGED <<seen, rooted, logs, tmp, used, audited, glued, uprooted, started, losses>>

-----------------------------------------------------------------------------
(* Path.unlink, which nothing settles                                       *)

Remove(p) ==
  /\ At(p, "unlink", "next")
  /\ seen[Head(todo[p]).path] # NoFile
  /\ seen' = [seen EXCEPT ![Head(todo[p]).path] = NoFile]
  /\ Done(p)
  /\ UNCHANGED <<kept, rooted, logs, tmp, history>>

(* append_audit_event                                                       *)
Piece(event, half) == [event |-> event, half |-> half]
OpenLine(l) == l # <<>> /\ l[Len(l)].half

WriteLine(p) ==
  /\ At(p, "append", "next")
  /\ log' = Append(log, Piece(Head(todo[p]).event, FALSE))
  /\ glued' = IF OpenLine(log) THEN glued \cup {Head(todo[p]).event} ELSE glued
  /\ Go(p, "appended")
  /\ UNCHANGED <<files, logKept, logNamed, todo, tmp, used, stored, audited, uprooted, started, losses>>

SyncLog(p) ==
  /\ At(p, "append", "appended")
  /\ logKept' = log
  /\ Go(p, "log_synced")
  /\ UNCHANGED <<files, log, logNamed, todo, tmp, history>>

(* Mutant: the event is reported before the log's name is settled.          *)
NameLogSkipped(p) ==
  /\ At(p, "append", "log_synced")
  /\ audited' = audited \cup {Head(todo[p]).event}
  /\ Done(p)
  /\ UNCHANGED <<files, logs, tmp, used, stored, glued, uprooted, started, losses>>

NameLog(p) ==
  /\ At(p, "append", "log_synced")
  /\ logNamed' = TRUE
  /\ audited' = audited \cup {Head(todo[p]).event}
  /\ Done(p)
  /\ UNCHANGED <<files, log, logKept, tmp, used, stored, glued, uprooted, started, losses>>

-----------------------------------------------------------------------------
(* Faults                                                                   *)

Stop(p) == Go(p, "next") /\ todo' = [todo EXCEPT ![p] = <<>>]

(* Some call raises, the one after the last done: the temporary file goes,  *)
(* and the exception ends the command.                                      *)
Fail(p) ==
  /\ todo[p] # <<>>
  /\ tmp' = [tmp EXCEPT ![p] = NoFile]
  /\ Stop(p)
  /\ UNCHANGED <<files, logs, history>>

(* What a kill leaves of a temporary file stays, and nothing reads it.      *)
Kill(p) ==
  /\ todo[p] # <<>>
  /\ Stop(p)
  /\ UNCHANGED <<files, logs, tmp, history>>

(* A kill or a full disk in the middle of an append: its line has no end.   *)
CutLine(p) ==
  /\ At(p, "append", "next")
  /\ log' = Append(log, Piece(Head(todo[p]).event, TRUE))
  /\ Stop(p)
  /\ UNCHANGED <<files, logKept, logNamed, tmp, history>>

(* The kernel writes back.                                                  *)
FlushName(q) ==
  /\ kept[q] # seen[q]
  /\ kept' = Settled({q})
  /\ UNCHANGED <<seen, rooted, logs, todo, pc, tmp, history>>

FlushLog ==
  /\ \E n \in (Len(logKept) + 1)..Len(log) :
       \/ logKept' = SubSeq(log, 1, n)
       \/ logKept' = [SubSeq(log, 1, n) EXCEPT ![n].half = TRUE]
  /\ UNCHANGED <<files, log, logNamed, todo, pc, tmp, history>>

FlushDirectories ==
  /\ ~rooted /\ rooted' = TRUE
  /\ UNCHANGED <<seen, kept, logs, todo, pc, tmp, history>>

(* Directories that mkdir has made are not settled in their parents.        *)
PowerLoss ==
  /\ losses < MaxLosses
  /\ losses' = losses + 1
  /\ kept' = [q \in Paths |-> IF rooted THEN kept[q] ELSE NoFile]
  /\ seen' = kept'
  /\ uprooted' = (uprooted \/ ~rooted)
  /\ logKept' = IF rooted /\ logNamed THEN logKept ELSE <<>>
  /\ log' = logKept'
  /\ logNamed' = (rooted /\ logNamed)
  /\ todo' = [p \in Procs |-> <<>>]
  /\ pc' = [p \in Procs |-> "next"]
  /\ tmp' = [p \in Procs |-> NoFile]
  /\ UNCHANGED <<rooted, used, stored, audited, glued, started>>

-----------------------------------------------------------------------------

Init ==
  /\ seen = [q \in Paths |-> NoFile] /\ kept = seen
  /\ rooted = FALSE
  /\ log = <<>> /\ logKept = <<>> /\ logNamed = FALSE
  /\ todo = [p \in Procs |-> <<>>]
  /\ pc = [p \in Procs |-> "next"]
  /\ tmp = [p \in Procs |-> NoFile]
  /\ used = {} /\ stored = {} /\ audited = {} /\ glued = {}
  /\ uprooted = FALSE /\ started = 0 /\ losses = 0

Command(p) == Remember(p) \/ Score(p) \/ Accept(p) \/ Archive(p)
WriteStep(p) ==
  MakeTemp(p) \/ WriteTemp(p) \/ SyncTemp(p) \/ Replace(p) \/ SyncDirectory(p)
AppendStep(p) == WriteLine(p) \/ SyncLog(p) \/ NameLog(p)
Fault(p) == Fail(p) \/ Kill(p) \/ CutLine(p)
WriteBack == FlushLog \/ FlushDirectories \/ \E q \in Paths : FlushName(q)

Next ==
  \/ \E p \in Procs : Command(p) \/ WriteStep(p) \/ Remove(p) \/ AppendStep(p) \/ Fault(p)
  \/ WriteBack \/ PowerLoss

Spec == Init /\ [][Next]_vars

-----------------------------------------------------------------------------
(* Properties                                                               *)

(* Every file is written as AtomicFiles says: a reader, and whoever looks   *)
(* after a power failure, finds all of some write or nothing.               *)
Data(f) == IF f = NoFile THEN NoFile ELSE f.data
Safe(f) == IF f = NoFile THEN NoFile ELSE f.safe
Abstract == INSTANCE AtomicFiles WITH
  Names <- Paths, Values <- Wholes, Nothing <- NoFile,
  value <- [q \in Paths |-> Data(seen[q])],
  settled <- [q \in Paths |-> Safe(kept[q])]
FilesAtomic == Abstract!Spec

(* A memory of which one write has returned is on the disk in some          *)
(* directory from then on, through every move, failure, kill and power      *)
(* failure, although no unlink is ever settled and the kernel may write     *)
(* names back in any order.                                                 *)
Durable ==
  ~uprooted => \A id \in stored :
    \E place \in Places : kept[<<place, id>>] # NoFile /\ kept[<<place, id>>].safe \in Wholes

(* The log never runs ahead of the store: whoever reads that a memory was   *)
(* accepted by policy finds it in canon or archive, and would find it there *)
(* after a power failure.                                                   *)
AuditedIsStored ==
  ~uprooted => \A i \in 1..Len(log) :
    log[i].event.outcome = "auto_accepted" =>
      \E place \in {"canon", "archive"} : kept[<<place, log[i].event.id>>] # NoFile

(* An event that remember has reported is on the disk, whole, on a line of  *)
(* its own, through later appends, kills and power failures: unless the log *)
(* had a line without an end when it was appended, which it then continues. *)
OwnLine(l, i) == ~l[i].half /\ (i = 1 \/ ~l[i - 1].half)
Reported ==
  ~uprooted => \A e \in audited :
    logNamed /\ \E i \in 1..Len(logKept) :
      logKept[i] = Piece(e, FALSE) /\ (OwnLine(logKept, i) \/ e \in glued)
=============================================================================
