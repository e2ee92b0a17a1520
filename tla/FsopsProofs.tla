------------------------------ MODULE FsopsProofs ---------------------------
(***************************************************************************)
(* Theorems about fsops.py: about Durability, for any processes and        *)
(* memories, any number of commands and of power failures; and about       *)
(* RootLock, for every set of pids.  The two share no state.               *)
(***************************************************************************)
EXTENDS Durability, RootLock, SequenceTheorems, TLAPS

-----------------------------------------------------------------------------
(* The lock.                                                                *)

(* A lock file and a pid are not the absence of one. *)
LEMMA LocksAreThere == NoLock \notin LockFile /\ NoLock \notin Pids
BY NoLockAssumption

(* A new lock file is one, and names its creator.                           *)
LEMMA NewLockFile ==
  ASSUME NEW p \in Pids
  PROVE  LET new == [creator |-> p, written |-> FALSE]
         IN  new \in LockFile /\ new # NoLock /\ new.creator = p
<1>. DEFINE new == [creator |-> p, written |-> FALSE]
<1>1. new \in LockFile
  BY Zenon DEF LockFile
<1>2. new.creator = p
  OBVIOUS
<1>3. QED
  BY <1>1, <1>2, LocksAreThere

(* The lock never leaves its types: in particular, only a pid is probed.    *)
THEOREM LockTypeCorrect == LockSpec => []LockTypeOK
<1>. USE DEF LockTypeOK, Working, LockFile, Goto
<1>1. LockInit => LockTypeOK
  BY DEF LockInit
<1>2. LockTypeOK /\ [LockNext]_lockVars => LockTypeOK'
  <2>. SUFFICES ASSUME LockTypeOK, [LockNext]_lockVars
                PROVE  LockTypeOK'
    OBVIOUS
  <2>1. ASSUME NEW p \in Pids, Acquire(p)
        PROVE  LockTypeOK'
    <3>1. ASSUME NEW to \in {"inspect", "out"}, CreateOr(p, to)
          PROVE  LockTypeOK'
      <4>1. CASE file = NoLock
        <5>1. file' \in LockFile
          BY <3>1, <4>1, NewLockFile DEF CreateOr
        <5>2. Goto(p, "write") /\ UNCHANGED <<found, stolen, reused>>
          BY <3>1, <4>1 DEF CreateOr
        <5>. HIDE DEF LockFile
        <5>3. QED
          BY <5>1, <5>2
      <4>2. CASE file # NoLock
        BY <3>1, <4>2 DEF CreateOr
      <4>3. QED
        BY <4>1, <4>2
    <3>2. CASE Inspect(p)
      BY <3>2 DEF Inspect, Readable
    <3>3. CASE Probe(p) \/ Reclaim(p)
      BY <3>3 DEF Probe, Reclaim
    <3>4. CASE WritePid(p)
      BY <3>4 DEF WritePid
    <3>5. QED
      BY <2>1, <3>1, <3>2, <3>3, <3>4 DEF Acquire, Create, Retry
  <2>2. ASSUME NEW p \in Pids,
               Request(p) \/ WriteFails(p) \/ Release(p) \/ Crash(p) \/ Reuse(p)
        PROVE  LockTypeOK'
    BY <2>2 DEF Request, WriteFails, Release, Crash, Reuse
  <2>3. QED
    BY <2>1, <2>2 DEF LockNext, lockVars
<1>3. QED
  BY <1>1, <1>2, PTL DEF LockSpec

-----------------------------------------------------------------------------
(* While nothing was stolen, whoever uses a lock file has it at the path.   *)
InPlace == stolen \/ \A p \in Pids : Using(p) => file # NoLock /\ file.creator = p

(* It is inductive: a process creates its file only where there is none, so *)
(* nobody else is using one, and what it unlinks is its own.                *)
LEMMA FilesStayInPlace == LockSpec => [](LockTypeOK /\ InPlace)
<1>. USE DEF LockTypeOK, InPlace, Using, Goto
<1>1. LockInit => InPlace
  BY DEF LockInit
<1>2. LockTypeOK /\ InPlace /\ [LockNext]_lockVars => InPlace'
  <2>. SUFFICES ASSUME LockTypeOK, InPlace, [LockNext]_lockVars
                PROVE  InPlace'
    OBVIOUS
  <2>1. ASSUME NEW p \in Pids, Acquire(p)
        PROVE  InPlace'
    <3>1. CASE Create(p) \/ Retry(p)
      <4>1. PICK to \in {"inspect", "out"} : CreateOr(p, to)
        BY <3>1 DEF Create, Retry
      <4>2. CASE file = NoLock
        <5>1. file' = [creator |-> p, written |-> FALSE]
          BY <4>1, <4>2 DEF CreateOr
        <5>2. file' # NoLock /\ file'.creator = p
          BY <5>1, NewLockFile
        <5>3. ASSUME NEW q \in Pids \ {p}
              PROVE  doing'[q] = doing[q]
          BY <4>1 DEF CreateOr
        <5>4. UNCHANGED stolen
          BY <4>1 DEF CreateOr
        <5>5. QED
          BY <4>2, <5>2, <5>3, <5>4
      <4>3. CASE file # NoLock
        BY <4>1, <4>3 DEF CreateOr
      <4>4. QED
        BY <4>2, <4>3
    <3>2. CASE Inspect(p) \/ Probe(p)
      BY <3>2 DEF Inspect, Probe
    <3>3. CASE Reclaim(p)
      BY <3>3 DEF Reclaim
    <3>4. CASE WritePid(p)
      BY <3>4, LocksAreThere DEF WritePid, LockFile
    <3>5. QED
      BY <2>1, <3>1, <3>2, <3>3, <3>4 DEF Acquire
  <2>2. ASSUME NEW p \in Pids, WriteFails(p) \/ Release(p)
        PROVE  InPlace'
    BY <2>2 DEF WriteFails, Release
  <2>3. ASSUME NEW p \in Pids, Request(p) \/ Crash(p) \/ Reuse(p)
        PROVE  InPlace'
    BY <2>3 DEF Request, Crash, Reuse
  <2>4. CASE UNCHANGED lockVars
    BY <2>4 DEF lockVars
  <2>5. QED
    BY <2>1, <2>2, <2>3, <2>4 DEF LockNext
<1>3. QED
  BY LockTypeCorrect, <1>1, <1>2, PTL DEF LockSpec

(* Two processes hold the root lock only after a reclaim has removed the    *)
(* file of a process that was using it.                                     *)
THEOREM ExclusionUnlessStolen == LockSpec => []ExclusiveUnlessStolen
<1>1. InPlace => ExclusiveUnlessStolen
  BY DEF InPlace, Using, ExclusiveUnlessStolen, MutualExclusion
<1>2. QED
  BY FilesStayInPlace, <1>1, PTL

(* A lock file belongs to a process that is using it or was killed, if its  *)
(* pid was not given out since: commands that end clean up after            *)
(* themselves.                                                              *)
THEOREM NoLockLeftBehind == LockSpec => []NoOrphan
<1>. USE DEF LockTypeOK, NoOrphan, Using, Goto
<1>1. LockInit => NoOrphan
  BY DEF LockInit
<1>2. LockTypeOK /\ NoOrphan /\ [LockNext]_lockVars => NoOrphan'
  <2>. SUFFICES ASSUME LockTypeOK, NoOrphan, [LockNext]_lockVars
                PROVE  NoOrphan'
    OBVIOUS
  <2>1. ASSUME NEW p \in Pids, Acquire(p)
        PROVE  NoOrphan'
    <3>1. CASE Create(p) \/ Retry(p)
      BY <3>1, LocksAreThere DEF Create, Retry, CreateOr, LockFile
    <3>2. CASE Inspect(p) \/ Probe(p) \/ Reclaim(p)
      BY <3>2 DEF Inspect, Probe, Reclaim, LockFile
    <3>3. CASE WritePid(p)
      BY <3>3, LocksAreThere DEF WritePid, LockFile
    <3>4. QED
      BY <2>1, <3>1, <3>2, <3>3 DEF Acquire
  <2>2. ASSUME NEW p \in Pids, WriteFails(p) \/ Release(p)
        PROVE  NoOrphan'
    BY <2>2 DEF WriteFails, Release
  <2>3. ASSUME NEW p \in Pids, Request(p) \/ Crash(p) \/ Reuse(p)
        PROVE  NoOrphan'
    BY <2>3 DEF Request, Crash, Reuse, Working, LockFile
  <2>4. CASE UNCHANGED lockVars
    BY <2>4 DEF lockVars
  <2>5. QED
    BY <2>1, <2>2, <2>3, <2>4 DEF LockNext
<1>3. QED
  BY LockTypeCorrect, <1>1, <1>2, PTL DEF LockSpec

-----------------------------------------------------------------------------
(* The promise of Mutex.                                                    *)

Inside == {p \in Pids : Using(p)}
Abandoned == file # NoLock /\ ~ Using(file.creator)

(* A step that neither creates nor removes a file, and after which the same *)
(* processes use one, is not to be found from outside.                       *)
LEMMA NothingSeen ==
  ASSUME LockTypeOK, UNCHANGED <<file, stolen>>, \A p \in Pids : Using(p)' <=> Using(p)
  PROVE  UNCHANGED <<Inside, Abandoned, stolen>>
<1>1. Inside' = Inside
  BY DEF Inside
<1>2. file # NoLock => file.creator \in Pids
  BY DEF LockTypeOK, LockFile
<1>3. Abandoned' <=> Abandoned
  BY <1>2 DEF Abandoned
<1>4. QED
  BY <1>1, <1>3

(* Until a file in use is stolen, every step of the protocol is one of      *)
(* Mutex or cannot be told from none.                                       *)
THEOREM LockIsMutex == LockSpec => ImplementsMutex
<1>1. LockInit => Promised!Init
  BY DEF LockInit, Promised!Init, Using
<1>. DEFINE Seen  == <<Inside, Abandoned, stolen>>
            Moves == \/ stolen' = TRUE
                     \/ Abandoned /\ Abandoned' = FALSE /\ Inside' = Inside /\ stolen' = stolen
                     \/ \E p \in Pids :
                          \/ /\ Inside = {} /\ ~ Abandoned /\ Inside' = {p}
                             /\ Abandoned' = Abandoned /\ stolen' = stolen
                          \/ /\ Inside = {p} /\ Inside' = {}
                             /\ Abandoned' = Abandoned /\ stolen' = stolen
                          \/ /\ Inside = {p} /\ Inside' = {}
                             /\ Abandoned' = TRUE /\ stolen' = stolen
<1>2. LockTypeOK /\ InPlace /\ LockTypeOK' /\ InPlace' /\ [LockNext]_lockVars =>
        Moves \/ UNCHANGED Seen
  <2>. SUFFICES ASSUME LockTypeOK, InPlace, LockTypeOK', InPlace', [LockNext]_lockVars, ~ stolen'
                PROVE  Moves \/ UNCHANGED Seen
    BY DEF LockTypeOK
  <2>1. ~ stolen /\ stolen' = stolen
    <3>1. stolen => stolen'
      BY DEF LockNext, lockVars, Acquire, Request, Create, Retry, CreateOr, Inspect,
             Probe, Reclaim, WritePid, WriteFails, Release, Crash, Reuse
    <3>2. QED
      BY <3>1 DEF LockTypeOK
  <2>2. /\ file = NoLock => Inside = {} /\ ~ Abandoned
        /\ file' = NoLock => Inside' = {} /\ ~ Abandoned'
        /\ Abandoned => Inside = {}
        /\ \A p \in Pids : Using(p) => Inside = {p} /\ file # NoLock /\ file.creator = p
        /\ \A p \in Pids : Using(p)' => Inside' = {p} /\ file'.creator = p
        /\ Abandoned \in BOOLEAN /\ Abandoned' \in BOOLEAN
    BY <2>1 DEF LockTypeOK, InPlace, Inside, Abandoned
  <2>. DEFINE Goal == Moves \/ UNCHANGED Seen
  <2>3. ASSUME NEW p \in Pids, ~ Using(p), ~ Using(p)', UNCHANGED file,
               \A q \in Pids \ {p} : doing'[q] = doing[q]
        PROVE  Goal
    <3>1. \A q \in Pids : Using(q)' <=> Using(q)
      BY <2>3 DEF Using
    <3>2. QED
      BY <2>1, <2>3, <3>1, NothingSeen
  <2>4. ASSUME NEW p \in Pids, Acquire(p)
        PROVE  Goal
    <3>1. CASE Create(p) \/ Retry(p)
      <4>1. PICK to \in {"inspect", "out"} : CreateOr(p, to) /\ ~ Using(p)
        BY <3>1 DEF Create, Retry, Using
      <4>2. CASE file = NoLock
        <5>1. Using(p)' /\ file' # NoLock /\ file'.creator = p
          BY <4>1, <4>2, NewLockFile DEF CreateOr, Goto, LockTypeOK, Using
        <5>2. Inside = {} /\ ~ Abandoned /\ Inside' = {p} /\ ~ Abandoned'
          BY <2>2, <4>2, <5>1 DEF Abandoned
        <5>3. QED
          BY <2>1, <2>2, <5>2
      <4>3. CASE file # NoLock
        BY <2>3, <4>1, <4>3 DEF CreateOr, Goto, LockTypeOK, Using
      <4>4. QED
        BY <4>2, <4>3
    <3>2. CASE Inspect(p) \/ Probe(p)
      BY <2>3, <3>2 DEF Inspect, Probe, Goto, LockTypeOK, Using
    <3>3. CASE Reclaim(p)
      <4>1. /\ file' = NoLock /\ \A q \in Pids : Using(q)' <=> Using(q)
            /\ ~ (file # NoLock /\ Using(file.creator))
        BY <2>1, <3>3 DEF Reclaim, Goto, LockTypeOK, Using
      <4>2. Inside' = Inside /\ ~ Abandoned'
        BY <4>1 DEF Inside, Abandoned
      <4>3. QED
        BY <2>1, <2>2, <4>2
    <3>4. CASE WritePid(p)
      <4>1. \A q \in Pids : Using(q)' <=> Using(q)
        BY <3>4 DEF WritePid, Goto, LockTypeOK, Using
      <4>2. Inside' = Inside
        BY <4>1 DEF Inside
      <4>3. Using(p) /\ Using(p)' /\ file # NoLock /\ file.creator = p
        BY <2>2, <3>4, <4>1 DEF WritePid, Using
      <4>4. ~ Abandoned /\ ~ Abandoned'
        BY <2>2, <4>3 DEF Abandoned
      <4>5. QED
        BY <2>1, <2>2, <4>2, <4>4
    <3>5. QED
      BY <2>4, <3>1, <3>2, <3>3, <3>4 DEF Acquire
  <2>5. ASSUME NEW p \in Pids, WriteFails(p) \/ Release(p)
        PROVE  Goal
    <3>1. Using(p) /\ file' = NoLock
      BY <2>5 DEF WriteFails, Release, Using
    <3>2. Inside = {p} /\ ~ Abandoned /\ Inside' = {} /\ ~ Abandoned'
      BY <2>2, <3>1
    <3>3. QED
      BY <2>1, <2>2, <3>2
  <2>6. ASSUME NEW p \in Pids, Request(p)
        PROVE  Goal
    BY <2>3, <2>6 DEF Request, Goto, LockTypeOK, Using
  <2>7. ASSUME NEW p \in Pids, Crash(p)
        PROVE  Goal
    <3>1. /\ UNCHANGED file /\ ~ Using(p)' /\ \A q \in Pids \ {p} : doing'[q] = doing[q]
      BY <2>7 DEF Crash, Goto, LockTypeOK, Using
    <3>2. CASE Using(p)
      <4>1. Inside = {p} /\ file # NoLock /\ file.creator = p
        BY <2>2, <3>2
      <4>2. Abandoned'
        BY <3>1, <4>1 DEF Abandoned
      <4>3. Inside' = {}
        BY <3>1, <4>1 DEF Inside, Using
      <4>4. QED
        BY <2>1, <2>2, <4>1, <4>2, <4>3
    <3>3. QED
      BY <2>3, <3>1, <3>2
  <2>8. ASSUME NEW p \in Pids, Reuse(p)
        PROVE  Goal
    BY <2>3, <2>8 DEF Reuse, Goto, LockTypeOK, Using
  <2>9. CASE UNCHANGED lockVars
    BY <2>9, NothingSeen DEF lockVars, Using
  <2>10. QED
    BY <2>4, <2>5, <2>6, <2>7, <2>8, <2>9 DEF LockNext
<1>3. Moves \/ UNCHANGED Seen => [Promised!Next]_(Promised!vars)
  BY DEF Inside, Abandoned, Promised!Next, Promised!vars, Promised!Enter, Promised!Leave,
         Promised!Die, Promised!Clear, Promised!Break
<1>4. QED
  <2>. HIDE DEF Moves, Seen
  <2>1. QED
    BY FilesStayInPlace, <1>1, <1>2, <1>3, PTL DEF LockSpec, ImplementsMutex, Promised!Spec

-----------------------------------------------------------------------------
(* The files.                                                               *)

AnyFile == [data : Contents, safe : Contents]
WholeFile == {File(d, d) : d \in Wholes}
Outcomes == {"rejected_secret_like", "review_required", "auto_accepted"}
Step == [op : {"write"}, path : Paths, data : Wholes]
          \cup [op : {"unlink"}, path : Paths]
          \cup [op : {"append"}, event : [id : Ids, outcome : Outcomes]]
WriteSteps == {"temp", "written", "synced", "replaced"}
LogSteps == {"appended", "log_synced"}

(* What the disk, the cache and the processes hold.  A file that has a name *)
(* is whole and synced, for a temporary file gets its name only then.       *)
TypeOK ==
  /\ seen \in [Paths -> WholeFile \cup {NoFile}]
  /\ kept \in [Paths -> WholeFile \cup {NoFile}]
  /\ todo \in [Procs -> Seq(Step)]
  /\ pc \in [Procs -> {"next"} \cup WriteSteps \cup LogSteps]
  /\ tmp \in [Procs -> AnyFile \cup {NoFile}]
  /\ \A p \in Procs :
       /\ pc[p] # "next" => todo[p] # <<>>
       /\ pc[p] \in WriteSteps => Head(todo[p]).op = "write"
       /\ pc[p] \in LogSteps => Head(todo[p]).op = "append"
       /\ pc[p] \in {"temp", "written"} => tmp[p] \in AnyFile
       /\ pc[p] = "written" => tmp[p].data = Head(todo[p]).data
       /\ pc[p] = "synced" => tmp[p] = File(Head(todo[p]).data, Head(todo[p]).data)

(* The steps of a command belong together: a file is unlinked right after   *)
(* the same memory was written where it moves to, and an acceptance is      *)
(* audited right after the candidate has gone.                              *)
Moves == {<<<<"inbox", id>>, <<"canon", id>>>> : id \in Ids}
           \cup {<<<<"canon", id>>, <<"archive", id>>>> : id \in Ids}
AutoAccepted(s) == s.op = "append" /\ s.event.outcome = "auto_accepted"
Linked(s) ==
  \A i \in 2..Len(s) :
    /\ s[i].op = "unlink" => s[i - 1].op = "write" /\ <<s[i].path, s[i - 1].path>> \in Moves
    /\ AutoAccepted(s[i]) => s[i - 1] = Unlink("inbox", s[i].event.id)
Opens(s) == s # <<>> => Head(s).op # "unlink" /\ ~AutoAccepted(Head(s))

(* The steps a command is made of.                                          *)
LEMMA StepsAreTyped ==
  ASSUME NEW id \in Ids
  PROVE  /\ \A place \in Places, data \in Wholes : Write(place, id, data) \in Step
         /\ \A place \in Places : Unlink(place, id) \in Step
         /\ \A outcome \in Outcomes : Audit(id, outcome) \in Step
BY DEF Write, Unlink, Audit, Event, Step, Paths

(* A command is a sequence of writes, unlinks and appends that belong       *)
(* together.                                                                *)
LEMMA CommandsAreLinked ==
  ASSUME NEW p \in Procs, Command(p)
  PROVE  \E steps \in Seq(Step) : Start(p, steps) /\ Linked(steps) /\ Opens(steps)
<1>1. CASE Remember(p)
  <2>1. PICK id \in Ids :
          \/ Start(p, <<Audit(id, "rejected_secret_like")>>)
          \/ Start(p, <<Write("inbox", id, "captured"), Write("inbox", id, "scored"),
             Audit(id, "review_required")>>)
          \/ Start(p, <<Write("inbox", id, "captured"), Write("inbox", id, "scored"),
             Write("canon", id, "accepted"), Unlink("inbox", id),
             Audit(id, "auto_accepted")>>)
    BY <1>1 DEF Remember
  <2>2. /\ Write("inbox", id, "captured") \in Step /\ Write("inbox", id, "scored") \in Step
        /\ Write("canon", id, "accepted") \in Step /\ Unlink("inbox", id) \in Step
        /\ Audit(id, "rejected_secret_like") \in Step
        /\ Audit(id, "review_required") \in Step /\ Audit(id, "auto_accepted") \in Step
    BY StepsAreTyped DEF Places, Wholes, Outcomes
  <2>. DEFINE rejected == <<Audit(id, "rejected_secret_like")>>
              reviewed == <<Write("inbox", id, "captured"), Write("inbox", id, "scored"),
                            Audit(id, "review_required")>>
              accepted == <<Write("inbox", id, "captured"), Write("inbox", id, "scored"),
                            Write("canon", id, "accepted"), Unlink("inbox", id),
                            Audit(id, "auto_accepted")>>
  <2>3. /\ rejected \in Seq(Step) /\ reviewed \in Seq(Step) /\ accepted \in Seq(Step)
    BY <2>2
  <2>4. Opens(rejected) /\ Opens(reviewed) /\ Opens(accepted)
    BY DEF Opens, AutoAccepted, Write, Audit, Event
  <2>5. Linked(rejected) /\ Linked(reviewed)
    BY DEF Linked, AutoAccepted, Write, Audit, Event
  <2>6. Linked(accepted)
    <3>1. <<accepted[4].path, accepted[3].path>> \in Moves /\ accepted[3].op = "write"
      BY DEF Moves, Write, Unlink
    <3>2. accepted[4] = Unlink("inbox", accepted[5].event.id) /\ ~AutoAccepted(accepted[4])
      BY DEF Unlink, Audit, Event, AutoAccepted
    <3>3. /\ \A k \in 2..3 : accepted[k].op = "write"
          /\ accepted[5].op = "append"
      BY DEF Write, Audit
    <3>4. \A k \in 2..Len(accepted) : k \in 2..3 \/ k = 4 \/ k = 5
      OBVIOUS
    <3>. HIDE DEF accepted
    <3>5. QED
      BY <3>1, <3>2, <3>3, <3>4 DEF Linked, AutoAccepted
  <2>7. QED
    BY <2>1, <2>3, <2>4, <2>5, <2>6
<1>2. CASE Score(p)
  <2>1. PICK id \in Ids :
          Start(p, <<Write("inbox", id, "scored")>>)
    BY <1>2 DEF Score
  <2>2. Write("inbox", id, "scored") \in Step
    BY StepsAreTyped DEF Places, Wholes, Outcomes
  <2>3. <<Write("inbox", id, "scored")>> \in Seq(Step)
    BY <2>2
  <2>4. Linked(<<Write("inbox", id, "scored")>>)
    BY DEF Linked, Moves, AutoAccepted, Write, Unlink, Audit, Event
  <2>5. Opens(<<Write("inbox", id, "scored")>>)
    BY DEF Opens, AutoAccepted, Write, Audit, Event
  <2>6. QED
    BY <2>1, <2>3, <2>4, <2>5
<1>3. CASE Accept(p)
  <2>1. PICK id \in Ids :
          Start(p, <<Write("canon", id, "accepted"), Unlink("inbox", id)>>)
    BY <1>3 DEF Accept
  <2>2. Write("canon", id, "accepted") \in Step /\ Unlink("inbox", id) \in Step
    BY StepsAreTyped DEF Places, Wholes, Outcomes
  <2>3. <<Write("canon", id, "accepted"), Unlink("inbox", id)>> \in Seq(Step)
    BY <2>2
  <2>4. Linked(<<Write("canon", id, "accepted"), Unlink("inbox", id)>>)
    BY DEF Linked, Moves, AutoAccepted, Write, Unlink, Audit, Event
  <2>5. Opens(<<Write("canon", id, "accepted"), Unlink("inbox", id)>>)
    BY DEF Opens, AutoAccepted, Write, Audit, Event
  <2>6. QED
    BY <2>1, <2>3, <2>4, <2>5
<1>4. CASE Archive(p)
  <2>1. PICK id \in Ids :
          Start(p, <<Write("archive", id, "archived"), Unlink("canon", id)>>)
    BY <1>4 DEF Archive
  <2>2. Write("archive", id, "archived") \in Step /\ Unlink("canon", id) \in Step
    BY StepsAreTyped DEF Places, Wholes, Outcomes
  <2>3. <<Write("archive", id, "archived"), Unlink("canon", id)>> \in Seq(Step)
    BY <2>2
  <2>4. Linked(<<Write("archive", id, "archived"), Unlink("canon", id)>>)
    BY DEF Linked, Moves, AutoAccepted, Write, Unlink, Audit, Event
  <2>5. Opens(<<Write("archive", id, "archived"), Unlink("canon", id)>>)
    BY DEF Opens, AutoAccepted, Write, Audit, Event
  <2>6. QED
    BY <2>1, <2>3, <2>4, <2>5
<1>5. QED
  BY <1>1, <1>2, <1>3, <1>4 DEF Command

(* What is left of a command after its first step.                          *)
LEMMA TailsAreSteps ==
  ASSUME NEW s \in Seq(Step), s # <<>>
  PROVE  Tail(s) \in Seq(Step) /\ Head(s) \in Step
BY HeadTailProperties

(* Of every command, every file and every temporary file: see TypeOK.       *)
THEOREM FilesTypeCorrect == Spec => []TypeOK
<1>1. Init => TypeOK
  BY DEF Init, TypeOK, WriteSteps, LogSteps
<1>2. TypeOK /\ [Next]_vars => TypeOK'
  <2>. SUFFICES ASSUME TypeOK, [Next]_vars
                PROVE  TypeOK'
    OBVIOUS
  <2>. USE DEF TypeOK, WriteSteps, LogSteps, files, logs, history
  <2>1. ASSUME NEW p \in Procs, Command(p)
        PROVE  TypeOK'
    <3>1. PICK steps \in Seq(Step) : Start(p, steps)
      BY <2>1, CommandsAreLinked
    <3>2. pc' = pc /\ pc[p] = "next" /\ todo' = [todo EXCEPT ![p] = steps]
      BY <3>1 DEF Start
    <3>3. QED
      BY <3>1, <3>2 DEF Start
  <2>2. ASSUME NEW p \in Procs, WriteStep(p)
        PROVE  TypeOK'
    <3>. USE DEF At, Go, Done
    <3>1. CASE MakeTemp(p)
      BY <3>1 DEF MakeTemp, AnyFile, File, Contents
    <3>2. CASE WriteTemp(p)
      <4>1. Head(todo[p]).data \in Wholes
        BY <3>2, TailsAreSteps DEF WriteTemp, Step
      <4>2. PICK data \in {"half", Head(todo[p]).data} :
              /\ tmp' = [tmp EXCEPT ![p].data = data]
              /\ pc' = [pc EXCEPT ![p] = IF data = "half" THEN "temp" ELSE "written"]
        BY <3>2 DEF WriteTemp
      <4>3. tmp'[p] \in AnyFile /\ tmp'[p].data = data
        BY <3>2, <4>1, <4>2 DEF WriteTemp, AnyFile, Contents
      <4>4. tmp' \in [Procs -> AnyFile \cup {NoFile}]
        BY <4>2, <4>3
      <4>5. QED
        BY <3>2, <4>2, <4>3, <4>4 DEF WriteTemp
    <3>3. CASE SyncTemp(p)
      BY <3>3 DEF SyncTemp, AnyFile, File
    <3>4. CASE Replace(p)
      <4>1. Head(todo[p]).data \in Wholes
        BY <3>4, TailsAreSteps DEF Replace, Step
      <4>2. QED
        BY <3>4, <4>1 DEF Replace, WholeFile
    <3>5. CASE SyncDirectory(p)
      BY <3>5, TailsAreSteps DEF SyncDirectory, Settled
    <3>6. QED
      BY <2>2, <3>1, <3>2, <3>3, <3>4, <3>5 DEF WriteStep
  <2>3. ASSUME NEW p \in Procs, Remove(p)
        PROVE  TypeOK'
    <3>1. Tail(todo[p]) \in Seq(Step)
      BY <2>3, TailsAreSteps DEF Remove, At
    <3>2. seen' \in [Paths -> WholeFile \cup {NoFile}]
      BY <2>3 DEF Remove
    <3>3. QED
      BY <2>3, <3>1, <3>2 DEF Remove, At, Go, Done
  <2>4. ASSUME NEW p \in Procs, AppendStep(p)
        PROVE  TypeOK'
    <3>1. CASE WriteLine(p)
      BY <3>1 DEF WriteLine, At, Go
    <3>2. CASE SyncLog(p)
      BY <3>2 DEF SyncLog, At, Go
    <3>3. CASE NameLog(p)
      <4>1. Tail(todo[p]) \in Seq(Step)
        BY <3>3, TailsAreSteps DEF NameLog, At
      <4>2. QED
        BY <3>3, <4>1 DEF NameLog, At, Go, Done
    <3>4. QED
      BY <2>4, <3>1, <3>2, <3>3 DEF AppendStep
  <2>5. ASSUME NEW p \in Procs, Fault(p)
        PROVE  TypeOK'
    <3>1. Stop(p) /\ UNCHANGED <<seen, kept>>
      BY <2>5 DEF Fault, Fail, Kill, CutLine
    <3>2. tmp' \in [Procs -> AnyFile \cup {NoFile}] /\ \A r \in Procs \ {p} : tmp'[r] = tmp[r]
      BY <2>5 DEF Fault, Fail, Kill, CutLine
    <3>3. <<>> \in Seq(Step)
      OBVIOUS
    <3>4. QED
      BY <3>1, <3>2, <3>3 DEF Go, Stop
  <2>6. CASE WriteBack
    BY <2>6 DEF WriteBack, FlushName, FlushLog, FlushDirectories, Settled
  <2>7. CASE PowerLoss
    BY <2>7 DEF PowerLoss
  <2>8. CASE UNCHANGED vars
    BY <2>8 DEF vars
  <2>9. QED
    BY <2>1, <2>2, <2>3, <2>4, <2>5, <2>6, <2>7, <2>8 DEF Next
<1>3. QED
  BY <1>1, <1>2, PTL DEF Spec

(* Of a file with a name, what is in the cache is what has been synced.     *)
LEMMA NamedFilesAreSynced ==
  ASSUME TypeOK, NEW q \in Paths
  PROVE  /\ Data(seen[q]) = Safe(seen[q]) /\ Data(kept[q]) = Safe(kept[q])
         /\ Data(seen[q]) \in Wholes \cup {NoFile}
         /\ Safe(kept[q]) \in Wholes \cup {NoFile}
BY DEF TypeOK, WholeFile, File, Data, Safe

(* Each step of a command, of the kernel or of a power failure is a step of *)
(* AtomicFiles or leaves every named file as it is: system calls and faults *)
(* in any order show a reader, and a disk after a power failure, all of     *)
(* some write or nothing.                                                   *)
THEOREM FilesAreAtomic == Spec => FilesAtomic
<1>1. Init => Abstract!Init
  BY DEF Init, Abstract!Init, Abstract!TypeOK, Data, Safe
<1>2. TypeOK /\ TypeOK' /\ [Next]_vars => [Abstract!Next]_Abstract!vars
  <2>. SUFFICES ASSUME TypeOK, TypeOK', [Next]_vars
                PROVE  Abstract!Next \/ UNCHANGED Abstract!vars
    OBVIOUS
  <2>. DEFINE value == [q \in Paths |-> Data(seen[q])]
              settled == [q \in Paths |-> Safe(kept[q])]
  <2>1. UNCHANGED <<seen, kept>> => UNCHANGED Abstract!vars
    BY DEF Abstract!vars
  <2>2. ASSUME NEW q \in Paths, kept' = kept,
               NEW f \in WholeFile \cup {NoFile}, seen' = [seen EXCEPT ![q] = f]
        PROVE  Abstract!Next
    <3>1. Data(f) \in Wholes \cup {NoFile}
      BY DEF WholeFile, File, Data
    <3>2. value' = [value EXCEPT ![q] = Data(f)]
      BY <2>2 DEF TypeOK
    <3>3. Abstract!Put(q, Data(f))
      BY <2>2, <3>2 DEF Abstract!Put
    <3>4. QED
      BY <3>1, <3>3 DEF Abstract!Next
  <2>3. ASSUME NEW S \in SUBSET Paths, seen' = seen, kept' = Settled(S)
        PROVE  Abstract!Next
    <3>1. settled' = [q \in Paths |-> IF q \in S THEN value[q] ELSE settled[q]]
      BY <2>3, NamedFilesAreSynced DEF Settled
    <3>2. Abstract!Settle(S)
      BY <2>3, <3>1 DEF Abstract!Settle
    <3>3. QED
      BY <3>2 DEF Abstract!Next
  <2>4. ASSUME NEW p \in Procs, WriteStep(p)
        PROVE  Abstract!Next \/ UNCHANGED Abstract!vars
    <3>1. CASE MakeTemp(p) \/ WriteTemp(p) \/ SyncTemp(p)
      BY <3>1, <2>1 DEF MakeTemp, WriteTemp, SyncTemp, files
    <3>2. CASE Replace(p)
      <4>1. Head(todo[p]).path \in Paths /\ tmp[p] \in WholeFile
        BY <3>2, TailsAreSteps DEF Replace, At, TypeOK, Step, WholeFile, WriteSteps
      <4>2. QED
        BY <3>2, <4>1, <2>2 DEF Replace
    <3>3. CASE SyncDirectory(p)
      <4>1. InDirectory(Head(todo[p]).path[1]) \in SUBSET Paths
        BY DEF InDirectory
      <4>2. QED
        BY <3>3, <4>1, <2>3 DEF SyncDirectory
    <3>4. QED
      BY <2>4, <3>1, <3>2, <3>3 DEF WriteStep
  <2>5. ASSUME NEW p \in Procs, Remove(p)
        PROVE  Abstract!Next
    <3>1. Head(todo[p]).path \in Paths
      BY <2>5, TailsAreSteps DEF Remove, At, TypeOK, Step
    <3>2. QED
      BY <2>5, <3>1, <2>2 DEF Remove
  <2>6. CASE WriteBack
    <3>1. CASE FlushLog \/ FlushDirectories
      BY <3>1, <2>1 DEF FlushLog, FlushDirectories, files
    <3>2. ASSUME NEW q \in Paths, FlushName(q)
          PROVE  Abstract!Next
      <4>1. {q} \in SUBSET Paths
        OBVIOUS
      <4>2. QED
        BY <3>2, <4>1, <2>3 DEF FlushName
    <3>3. QED
      BY <2>6, <3>1, <3>2 DEF WriteBack
  <2>7. CASE PowerLoss
    <3>1. CASE rooted
      <4>1. value' = settled /\ settled' = settled
        BY <2>7, <3>1, NamedFilesAreSynced DEF PowerLoss
      <4>2. Abstract!Lose
        BY <4>1 DEF Abstract!Lose
      <4>3. QED
        BY <4>2 DEF Abstract!Next
    <3>2. CASE ~rooted
      <4>1. /\ value' = [q \in Paths |-> NoFile]
            /\ settled' = [q \in Paths |-> NoFile]
        BY <2>7, <3>2 DEF PowerLoss, Data, Safe
      <4>2. Abstract!LoseAll
        BY <4>1 DEF Abstract!LoseAll
      <4>3. QED
        BY <4>2 DEF Abstract!Next
    <3>3. QED
      BY <3>1, <3>2
  <2>8. ASSUME NEW p \in Procs, Command(p) \/ AppendStep(p) \/ Fault(p)
        PROVE  UNCHANGED <<seen, kept>>
    BY <2>8 DEF Command, Remember, Score, Accept, Archive, Start, AppendStep, WriteLine, SyncLog,
                NameLog, Fault, Fail, Kill, CutLine, files
  <2>9. CASE UNCHANGED vars
    BY <2>9, <2>1 DEF vars, files
  <2>10. QED
    BY <2>1, <2>4, <2>5, <2>6, <2>7, <2>8, <2>9 DEF Next
<1>3. QED
  BY <1>1, <1>2, FilesTypeCorrect, PTL DEF Spec, FilesAtomic, Abstract!Spec

-----------------------------------------------------------------------------
(* What was written stays                                                   *)

(* A memory is firm in a directory when the cache and the disk have it      *)
(* there: only an unlink ends that.                                         *)
Firm(place, id) == seen[<<place, id>>] # NoFile /\ kept[<<place, id>>] # NoFile
Found(S, id) == \E place \in S : Firm(place, id)
Settling == {"canon", "archive"}
Beyond(place) == {q \in Settling : (q = "archive" /\ place = "canon") \/ place = "inbox"}

(* What a command counts on at its next step: a memory that it unlinks or   *)
(* audits is firm where it has moved to, or where others have since moved   *)
(* it; and so will be what it has just put in place.                        *)
Backed(p) ==
  LET s == Head(todo[p])
  IN  /\ s.op = "unlink" => s.path[1] # "archive" /\ Found(Beyond(s.path[1]), s.path[2])
      /\ AutoAccepted(s) => Found(Settling, s.event.id)
      /\ pc[p] = "replaced" =>
           seen[s.path] # NoFile \/ Found(Beyond(s.path[1]), s.path[2])
Backs == \A p \in Procs : todo[p] # <<>> => Backed(p)

Settles ==
  /\ stored \subseteq Ids /\ uprooted \in BOOLEAN
  /\ \A p \in Procs : Linked(todo[p])
  /\ ~uprooted => Backs /\ \A id \in stored : Found(Places, id)

(* What is left of a command belongs together as well.                      *)
LEMMA TailsAreLinked ==
  ASSUME NEW s \in Seq(Step), s # <<>>, Linked(s)
  PROVE  Linked(Tail(s)) /\ (Tail(s) # <<>> => 2 \in 2..Len(s) /\ Head(Tail(s)) = s[2])
<1>1. /\ Tail(s) \in Seq(Step) /\ Len(Tail(s)) = Len(s) - 1 /\ Len(s) \in Nat /\ Len(s) > 0
      /\ \A i \in 1..Len(Tail(s)) : Tail(s)[i] = s[i + 1]
  BY HeadTailProperties, LenProperties, EmptySeq
<1>2. \A i \in 2..Len(Tail(s)) : /\ i + 1 \in 2..Len(s) /\ (i + 1) - 1 = i
                                 /\ Tail(s)[i] = s[i + 1] /\ Tail(s)[i - 1] = s[i]
  BY <1>1
<1>3. Linked(Tail(s))
  BY <1>2 DEF Linked
<1>4. ASSUME Tail(s) # <<>>
      PROVE  2 \in 2..Len(s) /\ Head(Tail(s)) = s[2]
  BY <1>1, <1>4, HeadTailProperties, EmptySeq
<1>5. QED
  BY <1>3, <1>4

(* A memory that is firm stays so through every step but the unlink of it   *)
(* by a command that knows it to be firm further on.                        *)
LEMMA FirmStays ==
  ASSUME TypeOK, Backs, [Next]_vars, ~uprooted', uprooted \in BOOLEAN,
         NEW place \in Places, NEW id \in Ids, Firm(place, id)
  PROVE  Firm(place, id)' \/ \E q \in Beyond(place) : Firm(q, id) /\ Firm(q, id)'
<1>. DEFINE here == <<place, id>>
<1>1. here \in Paths
  BY DEF Paths
<1>2. UNCHANGED <<seen, kept>> => Firm(place, id)'
  BY DEF Firm
<1>3. ASSUME NEW S \in SUBSET Paths, kept' = Settled(S), seen' = seen
      PROVE  Firm(place, id)'
  BY <1>1, <1>3 DEF Firm, Settled
<1>4. ASSUME NEW p \in Procs, Replace(p)
      PROVE  Firm(place, id)'
  <2>1. tmp[p] # NoFile
    BY <1>4, NoFileAssumption, TailsAreSteps
       DEF Replace, At, TypeOK, WriteSteps, File, Step, Contents
  <2>2. QED
    BY <1>1, <1>4, <2>1 DEF Replace, Firm, TypeOK
<1>5. ASSUME NEW p \in Procs, SyncDirectory(p)
      PROVE  Firm(place, id)'
  BY <1>3, <1>5 DEF SyncDirectory, InDirectory
<1>6. ASSUME NEW p \in Procs, Remove(p)
      PROVE  Firm(place, id)' \/ \E q \in Beyond(place) : Firm(q, id) /\ Firm(q, id)'
  <2>. DEFINE gone == Head(todo[p]).path
  <2>1. CASE gone # here
    BY <1>1, <1>6, <2>1 DEF Remove, Firm, TypeOK
  <2>2. CASE gone = here
    <3>1. PICK q \in Beyond(place) : Firm(q, id)
      BY <1>6, <2>2 DEF Remove, At, Backs, Backed, Found
    <3>2. <<q, id>> # here /\ <<q, id>> \in Paths
      BY DEF Beyond, Settling, Paths, Places
    <3>3. Firm(q, id)'
      BY <1>6, <2>2, <3>1, <3>2 DEF Remove, Firm, TypeOK
    <3>4. QED
      BY <3>1, <3>3
  <2>3. QED
    BY <2>1, <2>2
<1>7. CASE WriteBack
  <2>1. CASE FlushLog \/ FlushDirectories
    BY <2>1, <1>2 DEF FlushLog, FlushDirectories, files
  <2>2. ASSUME NEW q \in Paths, FlushName(q)
        PROVE  Firm(place, id)'
    BY <1>3, <2>2 DEF FlushName
  <2>3. QED
    BY <1>7, <2>1, <2>2 DEF WriteBack
<1>8. CASE PowerLoss
  <2>1. rooted
    BY <1>8 DEF PowerLoss
  <2>2. QED
    BY <1>1, <1>8, <2>1 DEF PowerLoss, Firm
<1>9. ASSUME NEW p \in Procs,
             \/ Command(p) \/ AppendStep(p) \/ Fault(p)
             \/ MakeTemp(p) \/ WriteTemp(p) \/ SyncTemp(p)
      PROVE  UNCHANGED <<seen, kept>>
  BY <1>9 DEF Command, Remember, Score, Accept, Archive, Start, AppendStep, WriteLine, SyncLog,
              NameLog, Fault, Fail, Kill, CutLine, MakeTemp, WriteTemp, SyncTemp, files
<1>10. CASE UNCHANGED vars
  BY <1>10, <1>2 DEF vars, files
<1>11. QED
  BY <1>2, <1>4, <1>5, <1>6, <1>7, <1>8, <1>9, <1>10 DEF Next, WriteStep

LEMMA FoundStays ==
  ASSUME TypeOK, Backs, [Next]_vars, ~uprooted', uprooted \in BOOLEAN, NEW id \in Ids
  PROVE  /\ Found(Places, id) => Found(Places, id)'
         /\ Found(Settling, id) => Found(Settling, id)'
         /\ \A place : Found(Beyond(place), id) => Found(Beyond(place), id)'
<1>1. ASSUME NEW S \in SUBSET Places, Found(S, id),
             \A place \in S : Beyond(place) \subseteq S
      PROVE  Found(S, id)'
  BY <1>1, FirmStays DEF Found
<1>2. /\ \A place \in Places : Beyond(place) \subseteq Places
      /\ \A place \in Settling : Beyond(place) \subseteq Settling
      /\ Settling \in SUBSET Places
  BY DEF Beyond, Settling, Places
<1>3. ASSUME NEW place
      PROVE  /\ Beyond(place) \in SUBSET Places
             /\ \A q \in Beyond(place) : Beyond(q) \subseteq Beyond(place)
  BY DEF Beyond, Settling, Places
<1>4. QED
  BY <1>1, <1>2, <1>3

(* A file that has a name keeps it, or its memory is firm further on.       *)
LEMMA NamedStays ==
  ASSUME TypeOK, Backs, [Next]_vars, ~PowerLoss, ~uprooted', uprooted \in BOOLEAN,
         NEW place \in Places, NEW id \in Ids,
         seen[<<place, id>>] # NoFile \/ Found(Beyond(place), id)
  PROVE  seen'[<<place, id>>] # NoFile \/ Found(Beyond(place), id)'
<1>. DEFINE here == <<place, id>>
<1>1. here \in Paths
  BY DEF Paths
<1>2. CASE Found(Beyond(place), id)
  BY <1>2, FoundStays
<1>3. CASE seen[here] # NoFile /\ seen'[here] = NoFile
  <2>1. ASSUME NEW p \in Procs, Replace(p)
        PROVE  FALSE
    <3>1. tmp[p] # NoFile
      BY <2>1, NoFileAssumption, TailsAreSteps
         DEF Replace, At, TypeOK, WriteSteps, File, Step, Contents
    <3>2. QED
      BY <1>1, <1>3, <2>1, <3>1 DEF Replace, TypeOK
  <2>2. ASSUME NEW p \in Procs, Remove(p)
        PROVE  Found(Beyond(place), id)
    <3>1. Head(todo[p]).path = here
      BY <1>1, <1>3, <2>2 DEF Remove, TypeOK
    <3>2. QED
      BY <2>2, <3>1 DEF Remove, At, Backs, Backed
  <2>3. UNCHANGED seen => FALSE
    BY <1>3
  <2>4. ASSUME NEW p \in Procs,
               \/ Command(p) \/ AppendStep(p) \/ Fault(p)
               \/ MakeTemp(p) \/ WriteTemp(p) \/ SyncTemp(p) \/ SyncDirectory(p)
        PROVE  UNCHANGED seen
    BY <2>4 DEF Command, Remember, Score, Accept, Archive, Start, AppendStep, WriteLine, SyncLog,
                NameLog, Fault, Fail, Kill, CutLine, MakeTemp, WriteTemp, SyncTemp,
                SyncDirectory, files
  <2>5. CASE WriteBack \/ UNCHANGED vars
    BY <2>5, <2>3 DEF WriteBack, FlushName, FlushLog, FlushDirectories, files, vars
  <2>6. QED
    BY <2>1, <2>2, <2>3, <2>4, <2>5, FoundStays DEF Next, WriteStep
<1>4. QED
  BY <1>2, <1>3

(* What a command counts on stays until it goes on.                         *)
LEMMA BackedStays ==
  ASSUME TypeOK, Backs, [Next]_vars, ~PowerLoss, ~uprooted', uprooted \in BOOLEAN,
         NEW r \in Procs, todo[r] # <<>>, todo'[r] = todo[r],
         pc'[r] = "replaced" => pc[r] = "replaced"
  PROVE  Backed(r)'
<1>. DEFINE s == Head(todo[r])
<1>1. s \in Step
  BY TailsAreSteps DEF TypeOK
<1>2. Backed(r)
  BY DEF Backs
<1>3. ASSUME s.op = "unlink"
      PROVE  s.path[1] # "archive" /\ Found(Beyond(s.path[1]), s.path[2])'
  <2>1. s.path[2] \in Ids
    BY <1>1, <1>3 DEF Step, Paths
  <2>2. QED
    BY <1>2, <1>3, <2>1, FoundStays DEF Backed
<1>4. ASSUME AutoAccepted(s)
      PROVE  Found(Settling, s.event.id)'
  <2>1. s.event.id \in Ids
    BY <1>1, <1>4 DEF Step, AutoAccepted
  <2>2. QED
    BY <1>2, <1>4, <2>1, FoundStays DEF Backed
<1>5. ASSUME pc'[r] = "replaced"
      PROVE  seen'[s.path] # NoFile \/ Found(Beyond(s.path[1]), s.path[2])'
  <2>1. s.op = "write"
    BY <1>5 DEF TypeOK, WriteSteps
  <2>2. s.path[1] \in Places /\ s.path[2] \in Ids /\ s.path = <<s.path[1], s.path[2]>>
    BY <1>1, <2>1 DEF Step, Paths
  <2>3. seen[s.path] # NoFile \/ Found(Beyond(s.path[1]), s.path[2])
    BY <1>2, <1>5 DEF Backed
  <2>4. QED
    BY <2>2, <2>3, NamedStays
<1>6. QED
  BY <1>3, <1>4, <1>5 DEF Backed

(* A write that has returned leaves its memory firm in its directory or     *)
(* further on.                                                              *)
LEMMA SyncedIsFound ==
  ASSUME TypeOK, Backs, [Next]_vars, ~PowerLoss, ~uprooted', uprooted \in BOOLEAN,
         NEW p \in Procs, SyncDirectory(p)
  PROVE  \E place \in Places, id \in Ids :
           /\ Head(todo[p]).path = <<place, id>>
           /\ Firm(place, id)' \/ Found(Beyond(place), id)'
<1>1. Head(todo[p]).path \in Paths
  BY TailsAreSteps DEF SyncDirectory, At, TypeOK, Step
<1>2. PICK place \in Places, id \in Ids : Head(todo[p]).path = <<place, id>>
  BY <1>1 DEF Paths
<1>. DEFINE here == <<place, id>>
<1>3. seen[here] # NoFile \/ Found(Beyond(place), id)
  BY <1>2 DEF SyncDirectory, At, Backs, Backed
<1>4. CASE seen[here] # NoFile
  <2>1. here \in InDirectory(place)
    BY DEF InDirectory, Paths
  <2>2. kept'[here] = seen[here] /\ seen' = seen
    BY <1>1, <1>2, <2>1 DEF SyncDirectory, Settled
  <2>3. Firm(place, id)'
    BY <1>4, <2>2 DEF Firm
  <2>4. QED
    BY <1>2, <2>3
<1>5. CASE Found(Beyond(place), id)
  BY <1>2, <1>5, FoundStays
<1>6. QED
  BY <1>3, <1>4, <1>5

(* How the rest of a command changes.                                       *)
LEMMA RestsChange ==
  ASSUME TypeOK, [Next]_vars, NEW r \in Procs
  PROVE  \/ todo'[r] = todo[r] /\ (pc'[r] = "replaced" => pc[r] = "replaced")
         \/ todo'[r] = <<>>
         \/ Command(r) \/ Replace(r) \/ SyncDirectory(r) \/ Remove(r) \/ NameLog(r)
<1>0. todo \in [Procs -> Seq(Step)] /\ pc \in [Procs -> {"next"} \cup WriteSteps \cup LogSteps]
  BY DEF TypeOK
<1>. USE <1>0
<1>1. ASSUME NEW p \in Procs, Command(p)
      PROVE  p = r \/ (todo'[r] = todo[r] /\ pc' = pc)
  <2>1. PICK steps : Start(p, steps)
    BY <1>1, CommandsAreLinked
  <2>2. QED
    BY <2>1 DEF Start
<1>2. ASSUME NEW p \in Procs, WriteStep(p)
      PROVE  \/ todo'[r] = todo[r] /\ (pc'[r] = "replaced" => pc[r] = "replaced")
             \/ Replace(r) \/ SyncDirectory(r)
  <2>1. CASE MakeTemp(p) \/ WriteTemp(p) \/ SyncTemp(p)
    BY <2>1 DEF MakeTemp, WriteTemp, SyncTemp, Go
  <2>2. CASE Replace(p)
    BY <2>2 DEF Replace, Go
  <2>3. CASE SyncDirectory(p)
    BY <2>3 DEF SyncDirectory, Done, Go
  <2>4. QED
    BY <1>2, <2>1, <2>2, <2>3 DEF WriteStep
<1>3. ASSUME NEW p \in Procs, Remove(p)
      PROVE  p = r \/ (todo'[r] = todo[r] /\ pc'[r] = pc[r])
  BY <1>3 DEF Remove, Done, Go
<1>4. ASSUME NEW p \in Procs, AppendStep(p)
      PROVE  \/ todo'[r] = todo[r] /\ (pc'[r] = "replaced" => pc[r] = "replaced")
             \/ NameLog(r)
  <2>1. CASE WriteLine(p)
    BY <2>1 DEF WriteLine, Go
  <2>2. CASE SyncLog(p)
    BY <2>2 DEF SyncLog, Go
  <2>3. CASE NameLog(p)
    BY <2>3 DEF NameLog, Done, Go
  <2>4. QED
    BY <1>4, <2>1, <2>2, <2>3 DEF AppendStep
<1>5. ASSUME NEW p \in Procs, Fault(p)
      PROVE  todo'[r] = <<>> \/ (todo'[r] = todo[r] /\ pc'[r] = pc[r])
  <2>1. Stop(p)
    BY <1>5 DEF Fault, Fail, Kill, CutLine
  <2>2. QED
    BY <2>1 DEF Stop, Go
<1>6. CASE WriteBack \/ UNCHANGED vars
  BY <1>6 DEF WriteBack, FlushName, FlushLog, FlushDirectories, vars
<1>7. CASE PowerLoss
  BY <1>7 DEF PowerLoss
<1>8. QED
  BY <1>1, <1>2, <1>3, <1>4, <1>5, <1>6, <1>7 DEF Next

(* What a command counts on at the step it goes on to.                      *)
LEMMA NextIsBacked ==
  ASSUME TypeOK, TypeOK', Backs, [Next]_vars, ~PowerLoss, ~uprooted', uprooted \in BOOLEAN,
         NEW r \in Procs, Linked(todo[r]), todo'[r] # <<>>,
         SyncDirectory(r) \/ Remove(r) \/ NameLog(r)
  PROVE  Backed(r)'
<1>1. /\ todo[r] # <<>> /\ todo[r] \in Seq(Step)
      /\ todo'[r] = Tail(todo[r]) /\ pc'[r] = "next"
  BY DEF TypeOK, SyncDirectory, Remove, NameLog, At, Done, Go
<1>2. PICK h \in Step, n \in Step :
        /\ 2 \in 2..Len(todo[r]) /\ n = todo[r][2] /\ n = Head(todo'[r])
        /\ h = todo[r][1] /\ h = Head(todo[r])
  <2>1. 2 \in 2..Len(todo[r]) /\ Head(Tail(todo[r])) = todo[r][2]
    BY <1>1, TailsAreLinked
  <2>2. Head(todo[r]) \in Step /\ Head(todo[r]) = todo[r][1] /\ todo[r][2] \in Step
    BY <1>1, <2>1, TailsAreSteps
  <2>3. QED
    BY <1>1, <2>1, <2>2
<1>3. /\ n.op = "unlink" => h.op = "write" /\ <<n.path, h.path>> \in Moves
      /\ AutoAccepted(n) => h = Unlink("inbox", n.event.id)
  <2>1. \A i \in 2..Len(todo[r]) : i = 2 =>
          LET m == todo[r][i]
              l == todo[r][i - 1]
          IN  /\ m.op = "unlink" => l.op = "write" /\ <<m.path, l.path>> \in Moves
              /\ AutoAccepted(m) => l = Unlink("inbox", m.event.id)
    BY DEF Linked
  <2>2. 2 - 1 = 1
    OBVIOUS
  <2>3. QED
    BY <1>2, <2>1, <2>2
<1>4. ASSUME n.op = "unlink"
      PROVE  n.path[1] # "archive" /\ Found(Beyond(n.path[1]), n.path[2])'
  <2>1. SyncDirectory(r)
    BY <1>2, <1>3, <1>4 DEF Remove, NameLog, At
  <2>2. PICK place \in Places, id \in Ids :
          /\ h.path = <<place, id>>
          /\ Firm(place, id)' \/ Found(Beyond(place), id)'
    BY <1>2, <2>1, SyncedIsFound
  <2>3. \/ n.path = <<"inbox", id>> /\ place = "canon"
        \/ n.path = <<"canon", id>> /\ place = "archive"
    BY <1>3, <1>4, <2>2 DEF Moves
  <2>4. n.path[1] # "archive" /\ n.path[2] = id
    BY <2>3
  <2>5. place \in Beyond(n.path[1]) /\ Beyond(place) \subseteq Beyond(n.path[1])
    BY <2>3 DEF Beyond, Settling
  <2>6. QED
    BY <2>2, <2>4, <2>5 DEF Found
<1>5. ASSUME AutoAccepted(n)
      PROVE  Found(Settling, n.event.id)'
  <2>1. n.event.id \in Ids
    BY <1>2, <1>5 DEF Step, AutoAccepted
  <2>2. h.op = "unlink" /\ h.path = <<"inbox", n.event.id>>
    BY <1>3, <1>5 DEF Unlink
  <2>3. Found(Beyond("inbox"), n.event.id)
    BY <1>1, <1>2, <2>2 DEF Backs, Backed
  <2>4. Beyond("inbox") = Settling
    BY DEF Beyond
  <2>5. QED
    BY <2>1, <2>3, <2>4, FoundStays
<1>6. QED
  BY <1>1, <1>2, <1>4, <1>5 DEF Backed

(* The invariant behind Durable.                                            *)
LEMMA SettlesInvariant ==
  ASSUME TypeOK, TypeOK', Settles, [Next]_vars
  PROVE  Settles'
<1>1. stored' \subseteq Ids /\ uprooted' \in BOOLEAN
  <2>1. ASSUME NEW p \in Procs, SyncDirectory(p)
        PROVE  Head(todo[p]).path[2] \in Ids
    BY <2>1, TailsAreSteps DEF SyncDirectory, At, TypeOK, Step, Paths
  <2>2. QED
    BY <2>1 DEF Settles, Next, Command, Remember, Score, Accept, Archive, Start, WriteStep,
                AppendStep, WriteLine, SyncLog, NameLog, Fault, Fail, Kill, CutLine, MakeTemp,
                WriteTemp, SyncTemp, Replace, SyncDirectory, Remove, WriteBack, FlushName,
                FlushLog, FlushDirectories, PowerLoss, history, vars
<1>2. ASSUME NEW r \in Procs
      PROVE  Linked(todo'[r])
  <2>1. CASE todo'[r] = todo[r] \/ Replace(r)
    BY <2>1 DEF Settles, Replace
  <2>2. CASE todo'[r] = <<>>
    BY <2>2 DEF Linked
  <2>3. CASE Command(r)
    <3>1. PICK steps \in Seq(Step) : Start(r, steps) /\ Linked(steps)
      BY <2>3, CommandsAreLinked
    <3>2. QED
      BY <3>1 DEF Start, TypeOK
  <2>4. CASE SyncDirectory(r) \/ Remove(r) \/ NameLog(r)
    <3>1. todo[r] # <<>> /\ todo'[r] = Tail(todo[r]) /\ todo[r] \in Seq(Step)
      BY <2>4 DEF TypeOK, SyncDirectory, Remove, NameLog, At, Done
    <3>2. QED
      BY <3>1, TailsAreLinked DEF Settles
  <2>5. QED
    BY <2>1, <2>2, <2>3, <2>4, RestsChange
<1>3. ASSUME ~uprooted'
      PROVE  Backs' /\ \A id \in stored' : Found(Places, id)'
  <2>1. uprooted \in BOOLEAN /\ ~uprooted
    BY <1>3 DEF Settles, Next, Command, Remember, Score, Accept, Archive, Start, WriteStep,
                AppendStep, WriteLine, SyncLog, NameLog, Fault, Fail, Kill, CutLine, MakeTemp,
                WriteTemp, SyncTemp, Replace, SyncDirectory, Remove, WriteBack, FlushName,
                FlushLog, FlushDirectories, PowerLoss, history, vars
  <2>2. Backs /\ stored \subseteq Ids /\ \A id \in stored : Found(Places, id)
    BY <2>1 DEF Settles
  <2>3. ASSUME NEW id \in stored'
        PROVE  Found(Places, id)'
    <3>1. CASE id \in stored
      BY <1>3, <2>1, <2>2, <3>1, FoundStays
    <3>2. CASE id \notin stored
      <4>1. PICK p \in Procs : SyncDirectory(p) /\ id = Head(todo[p]).path[2]
        BY <3>2, <2>3 DEF Next, Command, Remember, Score, Accept, Archive, Start, WriteStep,
                     AppendStep, WriteLine, SyncLog, NameLog, Fault, Fail, Kill, CutLine,
                     MakeTemp, WriteTemp, SyncTemp, Replace, SyncDirectory, Remove, WriteBack,
                     FlushName, FlushLog, FlushDirectories, PowerLoss, history, vars
      <4>2. ~PowerLoss
        BY <3>2, <2>3 DEF PowerLoss
      <4>3. PICK place \in Places, m \in Ids :
              /\ Head(todo[p]).path = <<place, m>>
              /\ Firm(place, m)' \/ Found(Beyond(place), m)'
        BY <1>3, <2>1, <2>2, <4>1, <4>2, SyncedIsFound
      <4>4. m = id /\ Beyond(place) \subseteq Places
        BY <4>1, <4>3 DEF Beyond, Settling, Places
      <4>5. QED
        BY <4>3, <4>4 DEF Found
    <3>3. QED
      BY <3>1, <3>2
  <2>4. ASSUME NEW r \in Procs, todo'[r] # <<>>
        PROVE  Backed(r)'
    <3>1. ~PowerLoss
      BY <2>4 DEF PowerLoss
    <3>2. CASE todo'[r] = todo[r] /\ (pc'[r] = "replaced" => pc[r] = "replaced")
      BY <1>3, <2>1, <2>2, <2>4, <3>1, <3>2, BackedStays
    <3>3. CASE Command(r)
      <4>1. PICK steps \in Seq(Step) : Start(r, steps) /\ Opens(steps)
        BY <3>3, CommandsAreLinked
      <4>2. todo'[r] = steps /\ pc'[r] = "next"
        BY <4>1 DEF Start, TypeOK
      <4>3. QED
        BY <2>4, <4>1, <4>2 DEF Backed, Opens
    <3>4. CASE Replace(r)
      <4>1. todo' = todo /\ todo[r] # <<>> /\ Head(todo[r]).op = "write"
        BY <3>4 DEF Replace, At
      <4>2. Head(todo[r]).path \in Paths /\ tmp[r] # NoFile
        BY <3>4, <4>1, NoFileAssumption, TailsAreSteps
           DEF Replace, At, TypeOK, WriteSteps, File, Step, Contents
      <4>3. seen'[Head(todo[r]).path] # NoFile
        BY <3>4, <4>2 DEF Replace, TypeOK
      <4>4. QED
        BY <4>1, <4>3 DEF Backed, AutoAccepted
    <3>5. CASE SyncDirectory(r) \/ Remove(r) \/ NameLog(r)
      BY <1>3, <2>1, <2>2, <2>4, <3>1, <3>5, NextIsBacked DEF Settles
    <3>6. QED
      BY <2>4, <3>2, <3>3, <3>4, <3>5, RestsChange
  <2>5. QED
    BY <2>3, <2>4 DEF Backs
<1>4. QED
  BY <1>1, <1>2, <1>3 DEF Settles

(* A command always finds what it counts on.                                *)
LEMMA SettlesAlways == Spec => []Settles
<1>1. Init => Settles
  <2>. SUFFICES ASSUME Init
                PROVE  Settles
    OBVIOUS
  <2>1. Linked(<<>>)
    BY DEF Linked
  <2>2. \A p \in Procs : todo[p] = <<>>
    BY DEF Init
  <2>3. stored = {} /\ uprooted = FALSE
    BY DEF Init
  <2>4. QED
    BY <2>1, <2>2, <2>3 DEF Settles, Backs
<1>2. TypeOK /\ TypeOK' /\ Settles /\ [Next]_vars => Settles'
  BY SettlesInvariant
<1>3. QED
  BY <1>1, <1>2, FilesTypeCorrect, PTL DEF Spec

(* A memory of which one write has returned is on the disk, whole, from     *)
(* then on: see Durable.                                                    *)
THEOREM FilesAreDurable == Spec => []Durable
<1>1. TypeOK /\ Settles => Durable
  <2>1. ASSUME TypeOK, NEW id \in Ids, Found(Places, id)
        PROVE  \E place \in Places :
                 kept[<<place, id>>] # NoFile /\ kept[<<place, id>>].safe \in Wholes
    <3>1. PICK place \in Places : Firm(place, id)
      BY <2>1 DEF Found
    <3>2. kept[<<place, id>>] \in WholeFile
      BY <2>1, <3>1 DEF TypeOK, Firm, Paths
    <3>3. place \in Places /\ kept[<<place, id>>] # NoFile
      BY <3>1 DEF Firm
    <3>4. PICK d \in Wholes : kept[<<place, id>>] = [data |-> d, safe |-> d]
      BY <3>2 DEF WholeFile, File
    <3>5. QED
      BY <3>3, <3>4
  <2>2. QED
    BY <2>1 DEF Settles, Durable
<1>2. QED
  BY <1>1, SettlesAlways, FilesTypeCorrect, PTL

-----------------------------------------------------------------------------
(* The audit log                                                            *)

AuditPiece == [event : [id : Ids, outcome : Outcomes], half : BOOLEAN]

(* The disk has the log up to some piece, which may be cut there.           *)
Keeps(k, l) ==
  /\ k \in Seq(AuditPiece) /\ l \in Seq(AuditPiece) /\ Len(k) <= Len(l)
  /\ \A i \in 1..Len(k) : /\ k[i].event = l[i].event
                          /\ i < Len(k) \/ k[i].half = FALSE => k[i] = l[i]
Logged == Keeps(logKept, log)
(* An event is there, on a line of its own unless it is one of G. *)
Lists(l, e, G) ==
  \E i \in 1..Len(l) : l[i] = Piece(e, FALSE) /\ (OwnLine(l, i) \/ e \in G)
True(l) == \A i \in 1..Len(l) :
             l[i].event.outcome = "auto_accepted" => Found(Settling, l[i].event.id)

(* What a step that is no power failure does to the log.                    *)
Appends(p, half) ==
  At(p, "append", "next") /\ log' = Append(log, Piece(Head(todo[p]).event, half))
Flushes(n) ==
  \/ logKept' = SubSeq(log, 1, n)
  \/ logKept' = [SubSeq(log, 1, n) EXCEPT ![n].half = TRUE]

LEMMA LogsChange ==
  ASSUME TypeOK, [Next]_vars, ~PowerLoss
  PROVE  \/ UNCHANGED <<log, logKept>>
         \/ logKept' = logKept /\ \E p \in Procs, half \in BOOLEAN : Appends(p, half)
         \/ log' = log /\ logKept' = log
         \/ log' = log /\ \E n \in (Len(logKept) + 1)..Len(log) : Flushes(n)
<1>1. ASSUME NEW p \in Procs, Command(p) \/ WriteStep(p) \/ Remove(p)
      PROVE  UNCHANGED <<log, logKept>>
  BY <1>1 DEF Command, Remember, Score, Accept, Archive, Start, WriteStep, MakeTemp, WriteTemp,
              SyncTemp, Replace, SyncDirectory, Remove, logs
<1>2. ASSUME NEW p \in Procs, AppendStep(p)
      PROVE  \/ UNCHANGED <<log, logKept>>
             \/ logKept' = logKept /\ Appends(p, FALSE)
             \/ log' = log /\ logKept' = log
  BY <1>2 DEF AppendStep, WriteLine, SyncLog, NameLog, Appends
<1>3. ASSUME NEW p \in Procs, Fault(p)
      PROVE  \/ UNCHANGED <<log, logKept>>
             \/ logKept' = logKept /\ Appends(p, TRUE)
  BY <1>3 DEF Fault, Fail, Kill, CutLine, Appends, logs
<1>4. CASE WriteBack
  BY <1>4 DEF WriteBack, FlushName, FlushLog, FlushDirectories, Flushes, logs
<1>5. CASE UNCHANGED vars
  BY <1>5 DEF vars, logs
<1>6. QED
  BY <1>1, <1>2, <1>3, <1>4, <1>5 DEF Next

(* The line that a step appends.                                            *)
LEMMA LinesAreTyped ==
  ASSUME TypeOK, NEW p \in Procs, NEW half \in BOOLEAN, At(p, "append", "next")
  PROVE  Piece(Head(todo[p]).event, half) \in AuditPiece
BY TailsAreSteps DEF TypeOK, At, Step, Piece, AuditPiece

(* A log that is written back up to a piece, which may be cut.               *)
LEMMA FlushedLines ==
  ASSUME NEW l \in Seq(AuditPiece), NEW n \in 1..Len(l),
         NEW m, \/ m = SubSeq(l, 1, n)
                \/ m = [SubSeq(l, 1, n) EXCEPT ![n].half = TRUE]
  PROVE  /\ m \in Seq(AuditPiece) /\ Len(m) = n
         /\ \A i \in 1..n : /\ m[i].event = l[i].event
                            /\ i < n \/ m[i].half = FALSE => m[i] = l[i]
<1>. DEFINE s == SubSeq(l, 1, n)
<1>1. s \in Seq(AuditPiece) /\ Len(s) = n /\ \A i \in 1..n : s[i] = l[i]
  BY SubSeqProperties
<1>2. CASE m = s
  BY <1>1, <1>2
<1>3. CASE m = [s EXCEPT ![n].half = TRUE]
  <2>1. s = [i \in 1..n |-> s[i]] /\ s[n] \in AuditPiece
    BY <1>1
  <2>. DEFINE cut == [s[n] EXCEPT !.half = TRUE]
  <2>2. m = [i \in 1..n |-> IF i = n THEN cut ELSE s[i]]
    BY <1>3, <2>1
  <2>3. cut \in AuditPiece
    BY <2>1 DEF AuditPiece
  <2>4. cut.event = s[n].event /\ cut.half = TRUE
    BY <2>1 DEF AuditPiece
  <2>5. m \in [1..n -> AuditPiece]
    <3>1. ASSUME NEW i \in 1..n
          PROVE  s[i] \in AuditPiece
      BY <1>1, <3>1
    <3>. HIDE DEF s, cut
    <3>2. QED
      BY <2>2, <2>3, <3>1
  <2>6. m \in Seq(AuditPiece) /\ Len(m) = n
    BY <2>5, SeqDef
  <2>7. m[n] = cut /\ \A i \in 1..n : i # n => m[i] = s[i]
    <3>. HIDE DEF s, cut
    <3>1. QED
      BY <2>2
  <2>8. \A i \in 1..n : i = n \/ i < n
    OBVIOUS
  <2>. HIDE DEF s, cut
  <2>9. QED
    BY <1>1, <2>4, <2>6, <2>7, <2>8
<1>4. QED
  BY <1>2, <1>3

LEMMA KeepsItself ==
  ASSUME NEW k, NEW l, Keeps(k, l)
  PROVE  Keeps(k, k) /\ Keeps(l, l) /\ Keeps(<<>>, <<>>)
BY DEF Keeps

(* What is kept of a log is kept of a longer one, and of what is flushed of *)
(* it; a piece that was whole stays whole, and nothing is put before it.    *)
LEMMA KeepsPieces ==
  ASSUME NEW k, NEW l, Keeps(k, l), NEW G
  PROVE  /\ \A e : Lists(k, e, G) => Lists(l, e, G)
         /\ \A piece \in AuditPiece : /\ Keeps(k, Append(l, piece))
                                      /\ \A e : Lists(l, e, G) => Lists(Append(l, piece), e, G)
         /\ \A m : \A n \in (Len(k) + 1)..Len(l) :
              \/ m = SubSeq(l, 1, n)
              \/ m = [SubSeq(l, 1, n) EXCEPT ![n].half = TRUE]
              => Keeps(m, l) /\ \A e : Lists(k, e, G) => Lists(m, e, G)
<1>1. /\ k \in Seq(AuditPiece) /\ l \in Seq(AuditPiece) /\ Len(k) <= Len(l)
      /\ Len(k) \in Nat /\ Len(l) \in Nat
      /\ \A i \in 1..Len(k) : /\ i \in 1..Len(l) /\ k[i].event = l[i].event
                              /\ i < Len(k) \/ k[i].half = FALSE => k[i] = l[i]
  BY LenProperties DEF Keeps
(* A log that agrees with another up to a piece and just before it. *)
<1>4. ASSUME NEW a, NEW b, NEW e, NEW i \in Nat \ {0}, i \in 1..Len(b), b[i] = Piece(e, FALSE),
             i > 1 => b[i - 1] = a[i - 1], OwnLine(a, i) \/ e \in G
      PROVE  Lists(b, e, G)
  <2>1. b[i].half = FALSE
    BY <1>4 DEF Piece
  <2>2. i = 1 \/ i > 1
    OBVIOUS
  <2>3. OwnLine(a, i) => OwnLine(b, i)
    BY <1>4, <2>1, <2>2 DEF OwnLine
  <2>4. QED
    BY <1>4, <2>3 DEF Lists
<1>5. ASSUME NEW e, NEW i \in 1..Len(k), k[i] = Piece(e, FALSE)
      PROVE  /\ i \in 1..Len(l) /\ l[i] = Piece(e, FALSE)
             /\ i > 1 => i - 1 \in 1..Len(k) /\ l[i - 1] = k[i - 1]
  <2>1. k[i].half = FALSE
    BY <1>5 DEF Piece
  <2>2. i > 1 => i - 1 \in 1..Len(k) /\ i - 1 < Len(k)
    BY <1>1
  <2>3. QED
    BY <1>1, <1>5, <2>1, <2>2
<1>6. ASSUME NEW e, Lists(k, e, G)
      PROVE  Lists(l, e, G)
  <2>1. PICK i \in 1..Len(k) : k[i] = Piece(e, FALSE) /\ (OwnLine(k, i) \/ e \in G)
    BY <1>6 DEF Lists
  <2>2. i \in Nat \ {0}
    BY <1>1
  <2>3. QED
    BY <1>4, <1>5, <2>1, <2>2
<1>7. ASSUME NEW piece \in AuditPiece
      PROVE  Keeps(k, Append(l, piece)) /\ \A e : Lists(l, e, G) => Lists(Append(l, piece), e, G)
  <2>1. PICK m : m = Append(l, piece)
    OBVIOUS
  <2>2. /\ m \in Seq(AuditPiece) /\ Len(m) = Len(l) + 1
        /\ \A i \in 1..Len(l) : m[i] = l[i] /\ i \in 1..Len(m)
    BY <1>1, <2>1, AppendProperties
  <2>3. Keeps(k, m)
    BY <1>1, <2>2 DEF Keeps
  <2>4. ASSUME NEW e, Lists(l, e, G)
        PROVE  Lists(m, e, G)
    <3>1. PICK i \in 1..Len(l) : l[i] = Piece(e, FALSE) /\ (OwnLine(l, i) \/ e \in G)
      BY <2>4 DEF Lists
    <3>2. i \in Nat \ {0} /\ (i > 1 => i - 1 \in 1..Len(l))
      BY <1>1
    <3>3. QED
      BY <1>4, <2>2, <3>1, <3>2
  <2>5. QED
    BY <2>1, <2>3, <2>4
<1>8. ASSUME NEW n \in (Len(k) + 1)..Len(l), NEW m,
             \/ m = SubSeq(l, 1, n)
             \/ m = [SubSeq(l, 1, n) EXCEPT ![n].half = TRUE]
      PROVE  Keeps(m, l) /\ \A e : Lists(k, e, G) => Lists(m, e, G)
  <2>1. n \in 1..Len(l) /\ \A i \in 1..Len(k) : i \in 1..n /\ i < n
    BY <1>1
  <2>2. /\ m \in Seq(AuditPiece) /\ Len(m) = n
        /\ \A i \in 1..n : /\ m[i].event = l[i].event
                           /\ i < n \/ m[i].half = FALSE => m[i] = l[i]
    BY <1>1, <1>8, <2>1, FlushedLines
  <2>3. Keeps(m, l)
    BY <1>1, <2>1, <2>2 DEF Keeps
  <2>4. ASSUME NEW e, Lists(k, e, G)
        PROVE  Lists(m, e, G)
    <3>1. PICK i \in 1..Len(k) : k[i] = Piece(e, FALSE) /\ (OwnLine(k, i) \/ e \in G)
      BY <2>4 DEF Lists
    <3>2. /\ l[i] = Piece(e, FALSE)
          /\ i > 1 => i - 1 \in 1..Len(k) /\ l[i - 1] = k[i - 1]
      BY <1>5, <3>1
    <3>3. i \in 1..Len(m) /\ m[i] = l[i] /\ (i > 1 => m[i - 1] = l[i - 1]) /\ i \in Nat \ {0}
      <4>1. \A j \in 1..Len(k) : j \in 1..Len(m) /\ m[j] = l[j]
        BY <2>1, <2>2
      <4>2. i \in Nat \ {0} /\ i \in 1..Len(k)
        BY <1>1
      <4>3. i \in 1..Len(m) /\ m[i] = l[i]
        BY <4>1, <4>2
      <4>4. ASSUME i > 1 PROVE m[i - 1] = l[i - 1]
        BY <3>2, <4>1, <4>4
      <4>5. QED
        BY <4>2, <4>3, <4>4
    <3>4. QED
      BY <1>4, <3>1, <3>2, <3>3
  <2>5. QED
    BY <2>3, <2>4
<1>9. QED
  BY <1>6, <1>7, <1>8

(* The disk keeps up with the log, and a piece that is whole in either      *)
(* stays there until a power failure, on a line of its own.                 *)
LEMMA LoggedInvariant ==
  ASSUME TypeOK, Logged, [Next]_vars
  PROVE  /\ Logged'
         /\ ~PowerLoss => \A e : /\ Lists(log, e, glued) => Lists(log', e, glued')
                                 /\ Lists(logKept, e, glued) => Lists(logKept', e, glued')
<1>0. glued \subseteq glued'
  BY DEF Next, Command, Remember, Score, Accept, Archive, Start, WriteStep,
         AppendStep, WriteLine, SyncLog, NameLog, Fault, Fail, Kill, CutLine, MakeTemp,
         WriteTemp, SyncTemp, Replace, SyncDirectory, Remove, WriteBack, FlushName,
         FlushLog, FlushDirectories, PowerLoss, history, vars
<1>. DEFINE Stay == \A e : /\ Lists(log, e, glued) => Lists(log', e, glued)
                           /\ Lists(logKept, e, glued) => Lists(logKept', e, glued)
<1>1. ASSUME PowerLoss
      PROVE  Logged'
  BY <1>1, KeepsItself DEF PowerLoss, Logged
<1>2. ASSUME UNCHANGED <<log, logKept>>
      PROVE  Logged' /\ Stay
  BY <1>2 DEF Logged
<1>3. ASSUME logKept' = logKept, NEW p \in Procs, NEW half \in BOOLEAN, Appends(p, half)
      PROVE  Logged' /\ Stay
  <2>1. PICK piece \in AuditPiece : log' = Append(log, piece)
    BY <1>3, LinesAreTyped DEF Appends
  <2>2. QED
    BY <1>3, <2>1, KeepsPieces DEF Logged
<1>4. ASSUME log' = log, logKept' = log
      PROVE  Logged' /\ Stay
  BY <1>4, KeepsItself, KeepsPieces DEF Logged
<1>5. ASSUME log' = log, NEW n \in (Len(logKept) + 1)..Len(log), Flushes(n)
      PROVE  Logged' /\ Stay
  BY <1>5, KeepsPieces DEF Flushes, Logged
<1>6. Logged' /\ (~PowerLoss => Stay)
  BY <1>1, <1>2, <1>3, <1>4, <1>5, LogsChange
<1>7. \A l, e : Lists(l, e, glued) => Lists(l, e, glued')
  BY <1>0 DEF Lists
<1>8. QED
  BY <1>6, <1>7

(* The log tells of no acceptance that is not firm in canon or archive.     *)
Truth == ~uprooted => True(log)

LEMMA TruthInvariant ==
  ASSUME TypeOK, Settles, Logged, Truth, [Next]_vars
  PROVE  Truth'
<1>. SUFFICES ASSUME ~uprooted'
              PROVE  True(log)'
  BY DEF Truth
<1>1. uprooted \in BOOLEAN /\ ~uprooted
  BY DEF Settles, Next, Command, Remember, Score, Accept, Archive, Start, WriteStep,
         AppendStep, WriteLine, SyncLog, NameLog, Fault, Fail, Kill, CutLine, MakeTemp,
         WriteTemp, SyncTemp, Replace, SyncDirectory, Remove, WriteBack, FlushName,
         FlushLog, FlushDirectories, PowerLoss, history, vars
<1>2. Backs /\ True(log)
  BY <1>1 DEF Settles, Truth
<1>3. ASSUME NEW id \in Ids, Found(Settling, id)
      PROVE  Found(Settling, id)'
  BY <1>1, <1>2, <1>3, FoundStays
<1>4. PICK l \in Seq(AuditPiece), k \in Seq(AuditPiece) : l = log /\ k = logKept /\ Keeps(k, l)
  BY DEF Logged, Keeps
<1>5. ASSUME NEW i \in 1..Len(l), l[i].event.outcome = "auto_accepted"
      PROVE  Found(Settling, l[i].event.id)'
  <2>1. l[i].event.id \in Ids
    <3>1. l[i] \in AuditPiece
      BY <1>5
    <3>2. QED
      BY <3>1 DEF AuditPiece
  <2>2. QED
    BY <1>2, <1>3, <1>4, <1>5, <2>1 DEF True
<1>6. CASE log' = log
  BY <1>4, <1>5, <1>6 DEF True
<1>7. CASE PowerLoss
  <2>1. log' = k \/ log' = <<>>
    BY <1>4, <1>7 DEF PowerLoss
  <2>2. \A i \in 1..Len(k) : i \in 1..Len(l) /\ k[i].event = l[i].event
    BY <1>4, LenProperties DEF Keeps
  <2>3. QED
    BY <1>5, <2>1, <2>2 DEF True
<1>8. ASSUME NEW p \in Procs, NEW half \in BOOLEAN, Appends(p, half)
      PROVE  True(log)'
  <2>1. PICK piece \in AuditPiece : piece = Piece(Head(todo[p]).event, half)
    BY <1>8, LinesAreTyped DEF Appends
  <2>2. piece.event = Head(todo[p]).event /\ piece.event.id \in Ids
    BY <2>1 DEF AuditPiece, Piece
  <2>3. piece.event.outcome = "auto_accepted" => Found(Settling, piece.event.id)'
    BY <1>2, <1>3, <1>8, <2>2 DEF Appends, At, Backs, Backed, AutoAccepted
  <2>4. PICK m : m = Append(l, piece)
    OBVIOUS
  <2>5. /\ Len(m) = Len(l) + 1 /\ m[Len(l) + 1] = piece
        /\ \A i \in 1..Len(l) : m[i] = l[i]
    BY <2>4, AppendProperties
  <2>6. \A i \in 1..Len(m) : i \in 1..Len(l) \/ i = Len(l) + 1
    BY <2>5, LenProperties
  <2>7. log' = m
    BY <1>4, <1>8, <2>1, <2>4 DEF Appends
  <2>8. ASSUME NEW i \in 1..Len(m), m[i].event.outcome = "auto_accepted"
        PROVE  Found(Settling, m[i].event.id)'
    BY <1>5, <2>3, <2>5, <2>6, <2>8
  <2>9. QED
    BY <2>7, <2>8 DEF True
<1>9. QED
  BY <1>6, <1>7, <1>8, LogsChange

(* Whoever reads that a memory was accepted by policy finds it: see         *)
(* AuditedIsStored.                                                         *)
THEOREM AuditedIsFound == Spec => []AuditedIsStored
<1>1. Init => Logged /\ Truth
  BY DEF Init, Logged, Keeps, Truth, True
<1>2. TypeOK /\ TypeOK' /\ Settles /\ Logged /\ Truth /\ [Next]_vars => Logged' /\ Truth'
  BY LoggedInvariant, TruthInvariant
<1>3. Truth => AuditedIsStored
  BY DEF Truth, True, AuditedIsStored, Found, Firm, Settling
<1>4. Spec => []Settles
  BY SettlesAlways
<1>5. QED
  BY <1>1, <1>2, <1>3, <1>4, FilesTypeCorrect, PTL DEF Spec

(* What an append has done so far, and what is reported of it.              *)
Reporting ==
  /\ \A p \in Procs : /\ pc[p] = "appended" => Lists(log, Head(todo[p]).event, glued)
                      /\ pc[p] = "log_synced" => Lists(logKept, Head(todo[p]).event, glued)
  /\ ~uprooted => \A e \in audited : logNamed /\ Lists(logKept, e, glued)

(* How a process comes to be within an append.                              *)
LEMMA AppendsChange ==
  ASSUME TypeOK, [Next]_vars, NEW r \in Procs, pc'[r] \in LogSteps
  PROVE  \/ todo'[r] = todo[r] /\ pc'[r] = pc[r] /\ ~PowerLoss
         \/ WriteLine(r) \/ SyncLog(r)
<1>1. /\ todo \in [Procs -> Seq(Step)]
      /\ pc \in [Procs -> {"next"} \cup WriteSteps \cup LogSteps]
      /\ \A q \in Procs : todo[q] = <<>> => pc[q] \notin LogSteps
  BY DEF TypeOK, LogSteps
<1>2. ~PowerLoss
  BY DEF PowerLoss, LogSteps
<1>3. ASSUME NEW p \in Procs, Command(p)
      PROVE  todo'[r] = todo[r] /\ pc'[r] = pc[r]
  <2>1. PICK steps : Start(p, steps)
    BY <1>3, CommandsAreLinked
  <2>2. pc' = pc /\ todo[p] = <<>> /\ todo' = [todo EXCEPT ![p] = steps]
    BY <2>1 DEF Start
  <2>3. QED
    BY <1>1, <2>2
<1>4. ASSUME NEW p \in Procs, WriteStep(p)
      PROVE  todo'[r] = todo[r] /\ pc'[r] = pc[r]
  <2>1. CASE MakeTemp(p) \/ WriteTemp(p) \/ SyncTemp(p) \/ Replace(p)
    BY <1>1, <2>1 DEF MakeTemp, WriteTemp, SyncTemp, Replace, Go, LogSteps
  <2>2. CASE SyncDirectory(p)
    BY <1>1, <2>2 DEF SyncDirectory, Done, Go, LogSteps
  <2>3. QED
    BY <1>4, <2>1, <2>2 DEF WriteStep
<1>5. ASSUME NEW p \in Procs, Remove(p)
      PROVE  todo'[r] = todo[r] /\ pc'[r] = pc[r]
  BY <1>1, <1>5 DEF Remove, Done, Go, LogSteps
<1>6. ASSUME NEW p \in Procs, AppendStep(p)
      PROVE  (todo'[r] = todo[r] /\ pc'[r] = pc[r]) \/ WriteLine(r) \/ SyncLog(r)
  <2>1. CASE WriteLine(p)
    BY <1>1, <2>1 DEF WriteLine, Go
  <2>2. CASE SyncLog(p)
    BY <1>1, <2>2 DEF SyncLog, Go
  <2>3. CASE NameLog(p)
    BY <1>1, <2>3 DEF NameLog, Done, Go, LogSteps
  <2>4. QED
    BY <1>6, <2>1, <2>2, <2>3 DEF AppendStep
<1>7. ASSUME NEW p \in Procs, Fault(p)
      PROVE  todo'[r] = todo[r] /\ pc'[r] = pc[r]
  <2>1. Stop(p)
    BY <1>7 DEF Fault, Fail, Kill, CutLine
  <2>2. QED
    BY <1>1, <2>1 DEF Stop, Go, LogSteps
<1>8. CASE WriteBack \/ UNCHANGED vars
  BY <1>2, <1>8 DEF WriteBack, FlushName, FlushLog, FlushDirectories, vars
<1>9. QED
  BY <1>2, <1>3, <1>4, <1>5, <1>6, <1>7, <1>8 DEF Next

LEMMA ReportingInvariant ==
  ASSUME TypeOK, TypeOK', Logged, Reporting, uprooted \in BOOLEAN, [Next]_vars
  PROVE  Reporting'
<1>1. ~PowerLoss => \A e : /\ Lists(log, e, glued) => Lists(log', e, glued')
                           /\ Lists(logKept, e, glued) => Lists(logKept', e, glued')
  BY LoggedInvariant
<1>2. ASSUME NEW r \in Procs, pc'[r] = "appended"
      PROVE  Lists(log', Head(todo'[r]).event, glued')
  <2>1. CASE todo'[r] = todo[r] /\ pc'[r] = pc[r] /\ ~PowerLoss
    BY <1>1, <1>2, <2>1 DEF Reporting
  <2>2. CASE WriteLine(r)
    <3>1. PICK piece \in AuditPiece : piece = Piece(Head(todo[r]).event, FALSE)
      BY <2>2, LinesAreTyped DEF WriteLine
    <3>2. PICK l \in Seq(AuditPiece) : l = log
      BY DEF Logged, Keeps
    <3>3. PICK m : m = Append(l, piece)
      OBVIOUS
    <3>4. Len(m) = Len(l) + 1 /\ m[Len(l) + 1] = piece /\ Len(l) + 1 \in 1..Len(m)
      BY <3>3, AppendProperties, LenProperties
    <3>5. log' = m /\ todo' = todo /\ m[Len(l) + 1] = Piece(Head(todo[r]).event, FALSE)
      BY <2>2, <3>1, <3>2, <3>3, <3>4 DEF WriteLine
    <3>6. OwnLine(m, Len(l) + 1) \/ Head(todo[r]).event \in glued'
      <4>1. CASE OpenLine(l)
        BY <2>2, <3>2, <4>1 DEF WriteLine
      <4>2. CASE ~OpenLine(l)
        <5>1. m[Len(l) + 1].half = FALSE
          BY <3>5 DEF Piece
        <5>2. CASE l = <<>>
          BY <5>1, <5>2 DEF OwnLine
        <5>3. CASE l # <<>>
          <6>1. Len(l) \in 1..Len(l) /\ Len(l) + 1 - 1 = Len(l)
            BY <5>3
          <6>2. m[Len(l) + 1 - 1] = l[Len(l)]
            BY <3>3, <6>1, AppendProperties
          <6>3. ~l[Len(l)].half
            BY <4>2, <5>3 DEF OpenLine
          <6>4. QED
            BY <5>1, <6>2, <6>3 DEF OwnLine
        <5>4. QED
          BY <5>2, <5>3
      <4>3. QED
        BY <4>1, <4>2
    <3>7. QED
      BY <3>4, <3>5, <3>6 DEF Lists
  <2>3. CASE SyncLog(r)
    BY <1>2, <2>3 DEF SyncLog, Go, TypeOK
  <2>4. QED
    BY <1>2, <2>1, <2>2, <2>3, AppendsChange DEF LogSteps
<1>3. ASSUME NEW r \in Procs, pc'[r] = "log_synced"
      PROVE  Lists(logKept', Head(todo'[r]).event, glued')
  <2>1. CASE todo'[r] = todo[r] /\ pc'[r] = pc[r] /\ ~PowerLoss
    BY <1>1, <1>3, <2>1 DEF Reporting
  <2>2. CASE WriteLine(r)
    BY <1>3, <2>2 DEF WriteLine, Go, TypeOK
  <2>3. CASE SyncLog(r)
    BY <2>3 DEF SyncLog, At, Reporting, history
  <2>4. QED
    BY <1>3, <2>1, <2>2, <2>3, AppendsChange DEF LogSteps
<1>4. ASSUME ~uprooted', NEW e \in audited'
      PROVE  logNamed' /\ Lists(logKept', e, glued')
  <2>1. ~uprooted
    BY <1>4 DEF Next, Command, Remember, Score, Accept, Archive, Start, WriteStep,
                AppendStep, WriteLine, SyncLog, NameLog, Fault, Fail, Kill, CutLine, MakeTemp,
                WriteTemp, SyncTemp, Replace, SyncDirectory, Remove, WriteBack, FlushName,
                FlushLog, FlushDirectories, PowerLoss, history, vars
  <2>2. CASE PowerLoss
    BY <1>4, <2>1, <2>2 DEF PowerLoss, Reporting
  <2>3. ASSUME NEW p \in Procs, NameLog(p)
        PROVE  logNamed' /\ Lists(logKept', e, glued')
    <3>1. e \in audited \/ e = Head(todo[p]).event
      BY <1>4, <2>3 DEF NameLog
    <3>2. logNamed' /\ logKept' = logKept
      BY <2>3 DEF NameLog
    <3>3. QED
      BY <2>1, <2>3, <3>1, <3>2 DEF NameLog, At, Reporting
  <2>4. CASE ~PowerLoss /\ audited' = audited /\ (logNamed => logNamed')
    BY <1>1, <1>4, <2>1, <2>4 DEF Reporting
  <2>5. \/ PowerLoss \/ \E p \in Procs : NameLog(p)
        \/ audited' = audited /\ (logNamed => logNamed')
    BY DEF Next, Command, Remember, Score, Accept, Archive, Start, WriteStep,
           AppendStep, WriteLine, SyncLog, Fault, Fail, Kill, CutLine, MakeTemp,
           WriteTemp, SyncTemp, Replace, SyncDirectory, Remove, WriteBack, FlushName,
           FlushLog, FlushDirectories, logs, history, vars
  <2>6. QED
    BY <2>2, <2>3, <2>4, <2>5
<1>5. QED
  BY <1>2, <1>3, <1>4 DEF Reporting

(* An event that remember has reported is on the disk: see Reported.        *)
THEOREM EventsAreReported == Spec => []Reported
<1>1. Init => Logged /\ Reporting
  BY DEF Init, Logged, Keeps, Reporting
<1>2. /\ TypeOK /\ TypeOK' /\ Settles /\ Logged /\ Reporting /\ [Next]_vars
      => Logged' /\ Reporting'
  BY LoggedInvariant, ReportingInvariant DEF Settles
<1>3. Reporting => Reported
  BY DEF Reporting, Reported, Lists
<1>4. QED
  BY <1>1, <1>2, <1>3, FilesTypeCorrect, SettlesAlways, PTL DEF Spec
=============================================================================
