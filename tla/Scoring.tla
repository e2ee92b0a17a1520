------------------------------ MODULE Scoring ------------------------------
(***************************************************************************)
(* The scoring of a memory (scoring.py, policy.py) as pure operators.      *)
(*                                                                         *)
(* A NOTE is what a memory says, seen through what the scorer looks at:    *)
(*   kind      its kind                                                    *)
(*   words     the tokens of its normalized summary                        *)
(*   details   whether it has details                                      *)
(*   evidence  its evidence items, "agent" or one of the strong sources    *)
(*   marks     which families of markers its text contains                 *)
(*                                                                         *)
(* Factors are in quarters (0..4 stands for 0.0..1.0), weights in          *)
(* hundredths, and totals in hundredths, rounded as the code rounds them.  *)
(***************************************************************************)
EXTENDS Naturals, Sequences, FiniteSets

Lasting == {"preference", "workflow", "constraint"}
Factual == {"fact", "decision", "warning"}
Kinds   == Lasting \cup Factual

(* "opening" is a summary that starts with "remember this"; "local" is a    *)
(* text that names the workspace or says "this repo".                       *)
Marks == {"secret", "filler", "status", "temporary", "guess", "opening", "local"}

Note(Words) == [kind     : Kinds,
                words    : Seq(Words),
                details  : BOOLEAN,
                evidence : Seq({"agent", "strong"}),
                marks    : SUBSET Marks]

ValuesIn(s) == {s[k] : k \in DOMAIN s}

SecretLike(n) == "secret" \in n.marks

-----------------------------------------------------------------------------
(* The six factors, in quarters.                                            *)

Reuse(n, target) ==
  IF "status" \in n.marks \/ (target = "global" /\ "local" \in n.marks) THEN 0
  ELSE (IF n.kind \in Lasting THEN 3 ELSE 2) + (IF target = "global" THEN 1 ELSE 0)

Specificity(n) ==
  IF Len(n.words) < 4 \/ "opening" \in n.marks THEN 0
  ELSE IF Len(n.words) >= 8 \/ n.details THEN 4
  ELSE IF Len(n.words) >= 6 THEN 3 ELSE 2

Durability(n) ==
  IF "temporary" \in n.marks THEN 0 ELSE IF n.kind \in Lasting THEN 4 ELSE 3

Evidence(n) ==
  IF "strong" \in ValuesIn(n.evidence) THEN 4
  ELSE IF "guess" \in n.marks THEN 0
  ELSE IF Len(n.evidence) > 1 THEN 3 ELSE 1

Novelty(strong, near) == IF strong THEN 0 ELSE IF near THEN 1 ELSE 4

(* home is the scope of the record scored, target the scope it is scored    *)
(* for; they differ only when a workspace record is judged for promotion.   *)
ScopeFit(n, home, target) ==
  IF target = home THEN 4
  ELSE IF target = "global" /\ "local" \in n.marks THEN 0
  ELSE IF target = "global" /\ n.kind \in Lasting THEN 3 ELSE 2

-----------------------------------------------------------------------------

(* round(x, 2) of a weighted sum, which is a multiple of 1/80.  The ties    *)
(* that Python breaks by the binary value of the sum (an odd multiple of    *)
(* 1/200) are rounded up here.  None lies next to the retain threshold; the *)
(* one next to the promote threshold, 0.775, is a total that no combination *)
(* of factors with the minimum durability and evidence reaches.             *)
Aggregate(r, s, d, e, v, f) == (25*r + 15*s + 20*d + 20*e + 10*v + 10*f + 2) \div 4

Disqualified(n, strong) ==
  \/ n.marks \cap {"secret", "filler", "status"} # {}
  \/ Specificity(n) = 0
  \/ Evidence(n) = 0
  \/ strong

(* evaluate_record: 0 when disqualified, the weighted sum otherwise         *)
Total(n, home, target, strong, near) ==
  IF Disqualified(n, strong) THEN 0
  ELSE Aggregate(Reuse(n, target), Specificity(n), Durability(n), Evidence(n),
                 Novelty(strong, near), ScopeFit(n, home, target))

RetainThreshold  == 55
PromoteThreshold == 78

Retainable(n, strong, near) ==
  /\ ~ Disqualified(n, strong)
  /\ Total(n, "workspace", "workspace", strong, near) >= RetainThreshold

(* is_promotion_eligible: the minima are 0.70 and 0.80, between two quarters *)
Promotable(n, strong, near) ==
  /\ ~ Disqualified(n, strong)
  /\ Total(n, "workspace", "global", strong, near) >= PromoteThreshold
  /\ Durability(n) >= 3
  /\ Evidence(n) >= 4
=============================================================================
