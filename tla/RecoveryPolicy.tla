--------------------------- MODULE RecoveryPolicy ---------------------------
(***************************************************************************)
(* Which recovery options a manager may see, and in which order: the pure  *)
(* functions of domain/policies.py and domain/recovery.py.                 *)
(*                                                                         *)
(* A candidate set is a function from candidate ids to candidates.  Ids    *)
(* are integers, compared where the code compares strings.  Scores are in  *)
(* hundredths of a point and costs in tenths of a currency unit, so that   *)
(* the score needs no rounding.                                            *)
(***************************************************************************)
EXTENDS Integers, FiniteSets

CONSTANTS
  MaximumCost,        \* CorporateTravelPolicy.maximum_incremental_cost
  MinimumConnection,  \* CorporateTravelPolicy.minimum_connection_minutes
  Minimums,           \* confirmed minimum connections of travelers, 0 for none
  None                \* what the code writes as None

ASSUME PolicyNatural ==
  MaximumCost \in Nat /\ MinimumConnection \in Nat /\ Minimums \subseteq Nat

RecoveryCandidate ==
  [available : BOOLEAN, policy_compliant : BOOLEAN,
   accessibility_compliant : BOOLEAN, feasible : BOOLEAN,
   arrival_delay : Nat, incremental_cost : Nat, connection : Nat]

\* evaluate_recovery_policy.
PolicyEligible(c) ==
  c.incremental_cost <= MaximumCost /\ c.connection >= MinimumConnection

\* evaluate_candidate: no exclusion reason applies.
Unexcluded(c) ==
  /\ c.available /\ c.feasible /\ c.policy_compliant /\ c.accessibility_compliant
  /\ c.connection >= MinimumConnection

RecoveryScore(c) ==
  LET points == 10000 - 50 * c.arrival_delay - c.incremental_cost
  IN IF points < 0 THEN 0 ELSE points

\* evaluate_policy_eligible_candidate, with the lifecycle state it assigns.
EvaluateByPolicy(c) ==
  LET eligible == Unexcluded(c) /\ PolicyEligible(c)
  IN [eligible |-> eligible,
      score |-> IF eligible THEN RecoveryScore(c) ELSE -1,
      lifecycle |-> CASE ~PolicyEligible(c) -> "policy_ineligible"
                      [] PolicyEligible(c) /\ ~c.available -> "unavailable"
                      [] PolicyEligible(c) /\ c.available /\ ~c.policy_compliant ->
                           "policy_ineligible"
                      [] eligible -> "eligible"
                      [] OTHER -> "ineligible"]

ApplyMinimumInstead(c, evaluated, minimum) ==
  IF minimum = 0 \/ c.connection < minimum THEN evaluated
  ELSE [evaluated EXCEPT !.eligible = TRUE, !.lifecycle = "eligible",
                         !.score = RecoveryScore(c)]

\* apply_traveler_minimum_connection; 0 stands for no confirmed minimum.
ApplyTravelerMinimum(c, evaluated, minimum) ==
  IF minimum = 0 \/ c.connection >= minimum \/ ~evaluated.eligible THEN evaluated
  ELSE [eligible |-> FALSE, score |-> -1, lifecycle |-> "ineligible"]

Evaluated(c, minimum) == ApplyTravelerMinimum(c, EvaluateByPolicy(c), minimum)

EligibleIn(raw, minimum) == {i \in DOMAIN raw : Evaluated(raw[i], minimum).eligible}

\* The sort key (score, candidate_id), descending.
Better(raw, i, j) ==
  \/ RecoveryScore(raw[i]) > RecoveryScore(raw[j])
  \/ RecoveryScore(raw[i]) = RecoveryScore(raw[j]) /\ i > j

\* rank_eligible: displayed_position, 0 for a candidate that is not displayed.
Position(raw, minimum, i) ==
  LET eligible == EligibleIn(raw, minimum)
  IN IF i \notin eligible THEN 0
     ELSE 1 + Cardinality({j \in eligible : Better(raw, j, i)})

\* The candidates of a RecoveryCandidateSet.
CandidateSet(raw, minimum) ==
  [i \in DOMAIN raw |->
     [lifecycle |-> Evaluated(raw[i], minimum).lifecycle,
      position |-> Position(raw, minimum, i)]]
=============================================================================
