-------------------------------- MODULE Mutex --------------------------------
(***************************************************************************)
(* What acquire_root_lock promises to prune and compile: one command at a  *)
(* time is inside, and who is killed there leaves a lock that somebody     *)
(* clears.  Once a reclaim has broken a lock in use nothing is promised,   *)
(* so MemoryStore and Readers take nothing for granted of it.              *)
(***************************************************************************)
CONSTANT Procs

VARIABLES
  inside,  \* the commands that work under the lock
  left,    \* a lock is there that nobody works under
  broken

vars == <<inside, left, broken>>

Init == inside = {} /\ left = FALSE /\ broken = FALSE

Enter(p) == inside = {} /\ ~ left /\ inside' = {p} /\ UNCHANGED <<left, broken>>

Leave(p) == inside = {p} /\ inside' = {} /\ UNCHANGED <<left, broken>>

Die(p) == inside = {p} /\ inside' = {} /\ left' = TRUE /\ UNCHANGED broken

Clear == left /\ left' = FALSE /\ UNCHANGED <<inside, broken>>

Break == broken' = TRUE

Next == Clear \/ Break \/ \E p \in Procs : Enter(p) \/ Leave(p) \/ Die(p)

Spec == Init /\ [][Next]_vars
=============================================================================
