------------------------------ MODULE RootLock ------------------------------
(***************************************************************************)
(* The root lock that prune and compile take (fsops.py): a file created    *)
(* with O_EXCL, into which its creator writes its pid.  Who finds it there *)
(* inspects it: no pid in it, or the pid of no process, makes it stale,    *)
(* and it is unlinked and created anew.  Both unlinks go by the path,      *)
(* whoever's file is there by then.                                        *)
(*                                                                         *)
(* A member of Pids is a pid.  At most one file is at the path and a       *)
(* process creates one file per run, so a file is known by its creator.    *)
(***************************************************************************)
CONSTANTS
  Pids,      \* pids
  NoLock,    \* the absence of a lock file
  Faults     \* subset of {"fail", "crash", "reuse"}

LockFile == [creator : Pids, written : BOOLEAN]

ASSUME LockFaultsAssumption == Faults \subseteq {"fail", "crash", "reuse"}
ASSUME NoLockAssumption     == NoLock \notin LockFile \cup Pids

VARIABLES
  file,   \* the file at the path of the lock, or NoLock
  doing,  \* what runs under each pid, and its next step
  found,  \* the pid each process has read from the lock file, or NoLock
  stolen, \* history: a reclaim has removed the file of a process using it
  reused  \* history: the pids of killed processes that were given out again

lockVars == <<file, doing, found, stolen, reused>>

(* "out": no process has the pid.  "dead": one was killed under it.         *)
(* "other": a process that is not memwiz has it.                            *)
Working == {"create", "inspect", "probe", "reclaim", "retry", "write", "hold"}

(* The types, and that a process about to probe has a pid to probe.         *)
LockTypeOK ==
  /\ file \in LockFile \cup {NoLock}
  /\ doing \in [Pids -> Working \cup {"out", "dead", "other"}]
  /\ found \in [Pids -> Pids \cup {NoLock}]
  /\ \A p \in Pids : doing[p] = "probe" => found[p] \in Pids
  /\ stolen \in BOOLEAN
  /\ reused \subseteq Pids

LockInit ==
  /\ file = NoLock
  /\ doing = [p \in Pids |-> "out"]
  /\ found = [p \in Pids |-> NoLock]
  /\ stolen = FALSE
  /\ reused = {}

Goto(p, to) == doing' = [doing EXCEPT ![p] = to]

(* os.kill(pid, 0) finds a process.                                         *)
Alive(p) == doing[p] \notin {"out", "dead"}

(* The process uses the file it has created.                                *)
Using(p) == doing[p] \in {"write", "hold"}

-----------------------------------------------------------------------------

Request(p) ==
  /\ doing[p] = "out"
  /\ Goto(p, "create")
  /\ UNCHANGED <<file, found, stolen, reused>>

(* Mutant: the file is opened without O_EXCL. *)
CreateOrTruncate(p, otherwise) ==
  /\ file' = [creator |-> p, written |-> FALSE]
  /\ Goto(p, "write")
  /\ UNCHANGED <<found, stolen, reused>>

(* _create_lock_file, and where its FileExistsError leads                   *)
CreateOr(p, otherwise) ==
  /\ \/ /\ file = NoLock
        /\ file' = [creator |-> p, written |-> FALSE]
        /\ Goto(p, "write")
     \/ /\ file # NoLock
        /\ Goto(p, otherwise)
        /\ UNCHANGED file
  /\ UNCHANGED <<found, stolen, reused>>

Create(p) == doing[p] = "create" /\ CreateOr(p, "inspect")

(* The second attempt is the last: the command is refused with exit code 6. *)
Retry(p) == doing[p] = "retry" /\ CreateOr(p, "out")

(* _read_lock_pid finds a pid: the file is there and written.               *)
Readable == file # NoLock /\ file.written

(* Mutant: a file without a pid is taken for a lock that is held. *)
InspectTimid(p) ==
  /\ doing[p] = "inspect"
  /\ \/ /\ Readable
        /\ found' = [found EXCEPT ![p] = file.creator]
        /\ Goto(p, "probe")
     \/ /\ ~ Readable
        /\ Goto(p, "out")
        /\ UNCHANGED found
  /\ UNCHANGED <<file, stolen, reused>>

(* _lock_is_stale: a file that is gone or has no pid in it yet is stale.    *)
Inspect(p) ==
  /\ doing[p] = "inspect"
  /\ \/ /\ Readable
        /\ found' = [found EXCEPT ![p] = file.creator]
        /\ Goto(p, "probe")
     \/ /\ ~ Readable
        /\ Goto(p, "reclaim")
        /\ UNCHANGED found
  /\ UNCHANGED <<file, stolen, reused>>

(* The lock of a live process refuses the command, that of a dead one is    *)
(* stale.                                                                   *)
Probe(p) ==
  /\ doing[p] = "probe"
  /\ Goto(p, IF Alive(found[p]) THEN "out" ELSE "reclaim")
  /\ found' = [found EXCEPT ![p] = NoLock]
  /\ UNCHANGED <<file, stolen, reused>>

(* The unlink of a stale lock: whatever is at the path goes.                *)
Reclaim(p) ==
  /\ doing[p] = "reclaim"
  /\ file' = NoLock
  /\ stolen' = (stolen \/ (file # NoLock /\ Using(file.creator)))
  /\ Goto(p, "retry")
  /\ UNCHANGED <<found, reused>>

(* The pid goes to the file the process has open, at the path or not.       *)
WritePid(p) ==
  /\ doing[p] = "write"
  /\ file' = IF file # NoLock /\ file.creator = p THEN [file EXCEPT !.written = TRUE]
             ELSE file
  /\ Goto(p, "hold")
  /\ UNCHANGED <<found, stolen, reused>>

(* Mutant: the unlink is not in a finally block. *)
WriteFailsBare(p) ==
  /\ "fail" \in Faults
  /\ doing[p] = "write"
  /\ Goto(p, "out")
  /\ UNCHANGED <<file, found, stolen, reused>>

(* Writing the pid raises, and the lock is unlinked.                        *)
WriteFails(p) ==
  /\ "fail" \in Faults
  /\ doing[p] = "write"
  /\ file' = NoLock
  /\ Goto(p, "out")
  /\ UNCHANGED <<found, stolen, reused>>

(* The body returns or raises, and the lock is unlinked.                    *)
Release(p) ==
  /\ doing[p] = "hold"
  /\ file' = NoLock
  /\ Goto(p, "out")
  /\ UNCHANGED <<found, stolen, reused>>

-----------------------------------------------------------------------------

Crash(p) ==
  /\ "crash" \in Faults
  /\ doing[p] \in Working
  /\ Goto(p, "dead")
  /\ found' = [found EXCEPT ![p] = NoLock]
  /\ UNCHANGED <<file, stolen, reused>>

(* The system gives a pid to some process; that of an unrelated process may *)
(* be freed again.                                                          *)
Reuse(p) ==
  /\ "reuse" \in Faults
  /\ \/ doing[p] \in {"out", "dead"} /\ Goto(p, "other")
     \/ doing[p] \in {"dead", "other"} /\ Goto(p, "out")
  /\ reused' = IF doing[p] = "dead" THEN reused \cup {p} ELSE reused
  /\ UNCHANGED <<file, found, stolen>>

Acquire(p) ==
  Create(p) \/ Inspect(p) \/ Probe(p) \/ Reclaim(p) \/ Retry(p) \/ WritePid(p)

LockNext == \E p \in Pids :
  Request(p) \/ Acquire(p) \/ WriteFails(p) \/ Release(p) \/ Crash(p) \/ Reuse(p)

LockSpec == LockInit /\ [][LockNext]_lockVars

(* A command that runs takes its next step: nothing in it waits.            *)
LockFairSpec == LockSpec /\ \A p \in Pids : WF_lockVars(Acquire(p) \/ Release(p))

-----------------------------------------------------------------------------
(* Properties                                                               *)

(* What MemwizLockError and test_root_lock_blocks_second_writer_across_     *)
(* scopes promise: a second writer is refused.                              *)
MutualExclusion ==
  \A p, q \in Pids : doing[p] = "hold" /\ doing[q] = "hold" => p = q

(* Reclaiming a file that is in use is the only way to two holders:         *)
(* refusals, releases, failures, kills and reused pids never lead there.    *)
(* ImplementsMutex below says more; this is what a caller has from it.      *)
ExclusiveUnlessStolen == stolen \/ MutualExclusion

(* A lock file belongs to a process that is using it or was killed: no      *)
(* command that ends leaves a lock behind, whoever unlinked whose file.     *)
NoOrphan ==
  file # NoLock =>
    \/ Using(file.creator)
    \/ doing[file.creator] = "dead"
    \/ file.creator \in reused

(* Until a reclaim takes a file in use, the protocol as a whole, step by    *)
(* step, is a lock as prune and compile need it: refusals, retries, late    *)
(* reclaims, failing writes and kills at any point are not to be told from  *)
(* entering, leaving and dying inside, one command at a time.               *)
Promised == INSTANCE Mutex WITH
  Procs  <- Pids,
  inside <- {p \in Pids : Using(p)},
  left   <- file # NoLock /\ ~ Using(file.creator),
  broken <- stolen
ImplementsMutex == Promised!Spec

(* No kill locks the root for good: when only p is left and keeps trying,   *)
(* it keeps creating the lock file, wherever the others were killed and     *)
(* whatever became of their pids.  A process may not find a lock of its     *)
(* own pid, which it takes for one that is held.                            *)
Recovers ==
  \A p \in Pids :
    /\ <>[](\A q \in Pids \ {p} : doing[q] \in {"out", "dead"})
    /\ []<>(doing[p] = "create")
    /\ [](p \notin reused)
    => []<>Using(p)
=============================================================================
