----------------------------- MODULE Lifecycle -----------------------------
(***************************************************************************)
(* What the memory store promises of each memory, whatever processes run   *)
(* and fail.  A memory is captured, then accepted, then archived, and is   *)
(* never forgotten: only retainable memories are accepted, only promotable *)
(* ones enter the global scope, and a memory is archived only while a      *)
(* strong duplicate of it stays accepted, unless two prunes that are under *)
(* way at once contest it.                                                 *)
(*                                                                         *)
(* Spec is the promise under concurrency, StrictSpec the one commands keep *)
(* when they run one at a time: no two accepted memories duplicate each    *)
(* other, promotion takes an accepted source, and what is archived stays   *)
(* archived.                                                               *)
(***************************************************************************)
EXTENDS Dedupe

CONSTANTS Ids, Workspaces, Notes, NoFile

VARIABLES
  memory,    \* what the store knows under each id, or NoFile
  contested  \* what prunes that have overlapped another one are to archive

Memory(s, w, n, i) == [status |-> s, scope |-> w, note |-> n, source |-> i]

Known(i) == memory[i] # NoFile
Is(i, status) == Known(i) /\ memory[i].status = status

(* Some accepted memory under another id strongly duplicates m. *)
Duplicated(i, m) ==
  \E j \in Ids \ {i} : Is(j, "accepted") /\ StrongDuplicate(memory[j], m)

Become(i, status) == memory' = [memory EXCEPT ![i].status = status]

Init == memory = [i \in Ids |-> NoFile]

Capture(i, w, n) ==
  /\ ~ Known(i)
  /\ ~ SecretLike(n)
  /\ memory' = [memory EXCEPT ![i] = Memory("captured", w, n, NoId)]

Accept(i) ==
  /\ Is(i, "captured")
  /\ Retainable(memory[i].note, FALSE, FALSE)
  /\ Become(i, "accepted")

Promote(g, i) ==
  /\ ~ Known(g)
  /\ Is(i, "accepted") \/ Is(i, "archived")
  /\ memory[i].scope # Global
  /\ Promotable(memory[i].note, FALSE, FALSE)
  /\ memory' = [memory EXCEPT ![g] = Memory("accepted", Global, memory[i].note, i)]

Archive(i) ==
  /\ Is(i, "accepted")
  /\ Duplicated(i, memory[i])
  /\ Become(i, "archived")

(* Neither of two prunes sees what the other takes: both duplicates may go. *)
ArchiveContested(i) ==
  /\ i \in contested
  /\ Is(i, "accepted")
  /\ Become(i, "archived")

(* An accept that read its candidate before the memory was archived.        *)
Revive(i) ==
  /\ Is(i, "archived")
  /\ Become(i, "accepted")

Next ==
  /\ memory' # memory
  /\ \E i \in Ids :
       \/ \E w \in Workspaces, n \in Notes : Capture(i, w, n)
       \/ Accept(i)
       \/ \E g \in Ids : Promote(g, i)
       \/ Archive(i) \/ ArchiveContested(i)
       \/ Revive(i)

Spec == Init /\ [][Next]_memory

StrictNext ==
  /\ memory' # memory
  /\ \E i \in Ids :
       \/ \E w \in Workspaces, n \in Notes : Capture(i, w, n)
       \/ Accept(i) /\ ~ Duplicated(i, memory[i])
       \/ \E g \in Ids : /\ Promote(g, i)
                         /\ Is(i, "accepted")
                         /\ ~ Duplicated(g, memory'[g])
       \/ Archive(i)

StrictSpec == Init /\ [][StrictNext]_memory
=============================================================================
