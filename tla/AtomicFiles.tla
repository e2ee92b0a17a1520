----------------------------- MODULE AtomicFiles -----------------------------
(***************************************************************************)
(* What write_text_atomic promises of files that several processes write   *)
(* and a power failure interrupts: whoever looks finds a whole file or     *)
(* none, a write takes effect at once, and after a power failure each file *)
(* is what it was when it was last settled, or something newer.            *)
(***************************************************************************)
CONSTANTS
  Names,     \* the paths
  Values,    \* what a file may hold
  Nothing    \* there is no file

VARIABLES
  value,     \* what a reader finds
  settled    \* what is left after a power failure

vars == <<value, settled>>

TypeOK == value \in [Names -> Values \cup {Nothing}]
            /\ settled \in [Names -> Values \cup {Nothing}]

Init == TypeOK /\ settled = value

(* A file is replaced or removed.                                           *)
Put(n, v) == value' = [value EXCEPT ![n] = v] /\ UNCHANGED settled

Settle(S) ==
  /\ settled' = [n \in Names |-> IF n \in S THEN value[n] ELSE settled[n]]
  /\ UNCHANGED value

Lose == value' = settled /\ UNCHANGED settled

(* The directories were never settled.                                      *)
LoseAll ==
  /\ value' = [n \in Names |-> Nothing]
  /\ settled' = value'

Next ==
  \/ \E n \in Names, v \in Values \cup {Nothing} : Put(n, v)
  \/ \E S \in SUBSET Names : Settle(S)
  \/ Lose \/ LoseAll

Spec == Init /\ [][Next]_vars
=============================================================================
